---- MODULE Spec2Model ----
(***************************************************************************)
(* Model of the pipeline execution engine of new-haystack                 *)
(* (new_haystack/pipeline/pipeline.py).  A Pipeline owns a directed graph *)
(* of named nodes; Pipeline.run() drives the graph through a FIFO buffer  *)
(* of pending inputs.  The graph, the per-node visit counters and the     *)
(* node instances live in the Pipeline object and survive a run; the      *)
(* inputs buffer and the results are local to one call of run().          *)
(***************************************************************************)
EXTENDS Integers, Sequences, FiniteSets, TLC

\* ------------------------------------------------------------------------
\* Bounds of the model
\* ------------------------------------------------------------------------
\* the max_loops_allowed argument the pipelines are built with
MaxLoopsAllowed == 2
\* how many times run() is called on one pipeline object
MaxRuns == 3
\* the pipeline input is {"value": v} with v in 0..MaxValue
MaxValue == 3

\* Python's None, as an integer no node computes
None == -1

\* ------------------------------------------------------------------------
\* Sequence helpers
\* ------------------------------------------------------------------------
RECURSIVE SeqCount(_, _)
SeqCount(s, x) ==
    IF s = <<>> THEN 0
    ELSE (IF Head(s) = x THEN 1 ELSE 0) + SeqCount(Tail(s), x)

SeqRange(s) == {s[i] : i \in 1..Len(s)}

\* list.index(x): position of the first occurrence
SeqIndex(s, x) == CHOOSE i \in 1..Len(s) : s[i] = x /\ \A j \in 1..(i - 1) : s[j] # x

\* list.pop(position)
SeqPop(s, i) == [j \in 1..(Len(s) - 1) |-> IF j < i THEN s[j] ELSE s[j + 1]]

SetMax(S) == IF S = {} THEN 0 ELSE CHOOSE m \in S : \A x \in S : x <= m
SetMin(S) == IF S = {} THEN 0 ELSE CHOOSE m \in S : \A x \in S : m <= x

\* ------------------------------------------------------------------------
\* Dictionaries, as sets of <<key, value>> with one value per key
\* ------------------------------------------------------------------------
Keys(d) == {pair[1] : pair \in d}

\* d.get(key, {})
Get(d, key) == IF key \in Keys(d) THEN (CHOOSE pair \in d : pair[1] = key)[2] ELSE {}

\* {**first, **second}: the second dictionary's values win
Update(first, second) == {pair \in first : pair[1] \notin Keys(second)} \cup second

\* d[key] = value
SetItem(d, key, value) == {pair \in d : pair[1] # key} \cup {<<key, value>>}

\* ------------------------------------------------------------------------
\* Node implementations used by the pipelines of the test suite.
\* A node is [class, arg]; run(data) gives [ok, out]: ok = FALSE when the
\* call raises, out is the returned dictionary as a set of <<edge, value>>.
\* data is the list of contributions [label, value, src].
\* ------------------------------------------------------------------------
Node(class, arg) == [class |-> class, arg |-> arg]

Raises == [ok |-> FALSE, out |-> {}]
Returns(out) == [ok |-> TRUE, out |-> out]

\* for _, value in data: value += self.add ; return {"value": value}
AddValueRun(add, data) ==
    IF data = <<>> \/ \E i \in 1..Len(data) : data[i].value = None
    THEN Raises
    ELSE Returns({<<"value", data[Len(data)].value + add>>})

\* for _, value in data: value *= 2 ; return {expected_outputs[0]: value}
DoubleRun(data) ==
    IF data = <<>> \/ \E i \in 1..Len(data) : data[i].value = None
    THEN Raises
    ELSE Returns({<<"value", data[Len(data)].value * 2>>})

\* one input only; the value goes out on the edge named after the remainder
RemainderRun(divisor, data) ==
    IF Len(data) # 1 \/ data[1].value = None
    THEN Raises
    ELSE Returns({<<ToString(data[1].value % divisor), data[1].value>>})

\* one input only; "below" under the threshold, "above" otherwise
BelowRun(threshold, data) ==
    IF Len(data) # 1 \/ data[1].value = None
    THEN Raises
    ELSE IF data[1].value < threshold
         THEN Returns({<<"below", data[1].value>>})
         ELSE Returns({<<"above", data[1].value>>})

RECURSIVE SumValues(_)
SumValues(data) ==
    IF data = <<>> THEN 0
    ELSE (IF Head(data).value # None THEN Head(data).value ELSE 0) + SumValues(Tail(data))

\* sums the values that are not None
SumRun(data) == Returns({<<"sum", SumValues(data)>>})

\* the Sum of the merging pipeline: sum += value, which raises on None
StrictSumRun(data) ==
    IF \E i \in 1..Len(data) : data[i].value = None
    THEN Raises
    ELSE Returns({<<"sum", SumValues(data)>>})

RECURSIVE LastNotNone(_, _)
LastNotNone(data, output) ==
    IF data = <<>> THEN output
    ELSE LastNotNone(Tail(data), IF Head(data).value # None THEN Head(data).value ELSE output)

\* the value of the last input that is not None
MergeRun(data) == Returns({<<"value", LastNotNone(data, None)>>})

\* output[key] = value for every input: the last value of each key
NoOpRun(data) ==
    Returns({<<data[i].label, data[i].value>> : i \in
              {k \in 1..Len(data) : \A j \in (k + 1)..Len(data) : data[j].label # data[k].label}})

\* counts its calls and forwards its first input
CountRun(data) ==
    IF data = <<>> THEN Raises
    ELSE Returns({<<data[1].label, data[1].value>>})

\* one input; value + add goes out on edge_1 and value + add + 2 on edge_2
SplitRun(add, data) ==
    IF Len(data) # 1 \/ data[1].value = None
    THEN Raises
    ELSE Returns({<<"edge_1", data[1].value + add>>, <<"edge_2", data[1].value + add + 2>>})

\* the exception a node raises: arithmetic on None, or a loop variable that
\* was never bound because data is empty, or a failed unpacking
NodeException(node, data) ==
    IF \E i \in 1..Len(data) : data[i].value = None THEN "TypeError"
    ELSE IF data = <<>> THEN "UnboundLocalError"
    ELSE "ValueError"

NodeRun(node, data) ==
    CASE node.class = "AddValue" -> AddValueRun(node.arg, data)
      [] node.class = "Double" -> DoubleRun(data)
      [] node.class = "Remainder" -> RemainderRun(node.arg, data)
      [] node.class = "Below" -> BelowRun(node.arg, data)
      [] node.class = "Sum" -> SumRun(data)
      [] node.class = "StrictSum" -> StrictSumRun(data)
      [] node.class = "Merge" -> MergeRun(data)
      [] node.class = "NoOp" -> NoOpRun(data)
      [] node.class = "Count" -> CountRun(data)
      [] node.class = "Split" -> SplitRun(node.arg, data)

\* ------------------------------------------------------------------------
\* Graphs.  A graph is what add_node and connect leave in self.graph:
\* the node names in add_node order, their instances, and the labelled
\* edges in the order connect created them.
\* ------------------------------------------------------------------------
\* the threshold the Below nodes are built with
Threshold == 3

Edge(src, dst, label) == [src |-> src, dst |-> dst, label |-> label]

\* two branches, one node and two nodes long, summed
MergingPipeline ==
    [nodes |-> <<"first_addition", "second_addition", "third_addition", "sum", "fourth_addition">>,
     instances |-> <<Node("AddValue", 2), Node("AddValue", 2), Node("AddValue", 2),
                     Node("StrictSum", 2), Node("AddValue", 1)>>,
     edges |-> <<Edge("first_addition", "second_addition", "value"),
                 Edge("second_addition", "sum", "value"),
                 Edge("third_addition", "sum", "value"),
                 Edge("sum", "fourth_addition", "sum")>>]

LongMergingEdges ==
    <<Edge("first_addition", "second_addition", "value"),
      Edge("second_addition", "third_addition", "value"),
      Edge("third_addition", "sum", "value"),
      Edge("fourth_addition", "sum", "value"),
      Edge("sum", "fifth_addition", "sum")>>

LongMergingNodes ==
    <<"first_addition", "second_addition", "third_addition", "fourth_addition", "sum",
      "fifth_addition">>

\* the same with the first branch three nodes long
LongStrictMergingPipeline ==
    [nodes |-> LongMergingNodes,
     instances |-> <<Node("AddValue", 2), Node("AddValue", 2), Node("AddValue", 2),
                     Node("AddValue", 2), Node("StrictSum", 2), Node("AddValue", 1)>>,
     edges |-> LongMergingEdges]

\* the same with the Sum that tolerates None
LongMergingPipeline ==
    [nodes |-> LongMergingNodes,
     instances |-> <<Node("AddValue", 2), Node("AddValue", 2), Node("AddValue", 2),
                     Node("AddValue", 2), Node("Sum", 2), Node("AddValue", 1)>>,
     edges |-> LongMergingEdges]

\* a classifier with three exclusive branches of different lengths and a
\* second entry point, all merged by one sum with four inputs
DecisionAndMergePipeline ==
    [nodes |-> <<"add_one", "remainder", "add_ten", "double", "add_three", "add_one_again",
                 "sum", "no-op">>,
     instances |-> <<Node("AddValue", 1), Node("Remainder", 3), Node("AddValue", 10),
                     Node("Double", 0), Node("AddValue", 3), Node("AddValue", 1),
                     Node("Sum", 4), Node("NoOp", 0)>>,
     edges |-> <<Edge("add_one", "remainder", "value"),
                 Edge("remainder", "add_ten", "0"),
                 Edge("add_ten", "sum", "value"),
                 Edge("remainder", "double", "1"),
                 Edge("double", "sum", "value"),
                 Edge("remainder", "add_three", "2"),
                 Edge("add_three", "add_one_again", "value"),
                 Edge("add_one_again", "sum", "value"),
                 Edge("no-op", "sum", "value")>>]

\* the same without the second entry point: a sum with three inputs
DecisionPipeline ==
    [nodes |-> <<"add_one", "remainder", "add_ten", "double", "add_three", "add_one_again",
                 "sum">>,
     instances |-> <<Node("AddValue", 1), Node("Remainder", 3), Node("AddValue", 10),
                     Node("Double", 0), Node("AddValue", 3), Node("AddValue", 1),
                     Node("Sum", 3)>>,
     edges |-> <<Edge("add_one", "remainder", "value"),
                 Edge("remainder", "add_ten", "0"),
                 Edge("add_ten", "sum", "value"),
                 Edge("remainder", "double", "1"),
                 Edge("double", "sum", "value"),
                 Edge("remainder", "add_three", "2"),
                 Edge("add_three", "add_one_again", "value"),
                 Edge("add_one_again", "sum", "value")>>]

LoopEdges ==
    <<Edge("entry_point", "merge", "value"),
      Edge("merge", "below_10", "value"),
      Edge("below_10", "add_one", "below"),
      Edge("add_one", "counter", "value"),
      Edge("counter", "merge", "value"),
      Edge("below_10", "add_two", "above")>>

\* a loop that adds one until the value reaches the threshold
LoopingPipeline ==
    [nodes |-> <<"entry_point", "merge", "below_10", "add_one", "counter", "add_two">>,
     instances |-> <<Node("NoOp", 0), Node("Merge", 2), Node("Below", Threshold),
                     Node("AddValue", 1), Node("Count", 0), Node("AddValue", 2)>>,
     edges |-> LoopEdges]

\* the same loop adding zero: its exit condition is never satisfied
StuckLoopingPipeline ==
    [nodes |-> <<"entry_point", "merge", "below_10", "add_one", "counter", "add_two">>,
     instances |-> <<Node("NoOp", 0), Node("Merge", 2), Node("Below", Threshold),
                     Node("AddValue", 0), Node("Count", 0), Node("AddValue", 2)>>,
     edges |-> LoopEdges]

\* a loop whose body also feeds a node outside the loop, which merges it
\* with a second entry point
LoopAndMergePipeline ==
    [nodes |-> <<"entry_point", "other_entry", "merge", "below_10", "add_one", "fork",
                 "final", "add_two">>,
     instances |-> <<Node("NoOp", 0), Node("NoOp", 0), Node("Merge", 2), Node("Below", Threshold),
                     Node("AddValue", 1), Node("NoOp", 0), Node("Merge", 2), Node("AddValue", 2)>>,
     edges |-> <<Edge("entry_point", "merge", "value"),
                 Edge("merge", "below_10", "value"),
                 Edge("below_10", "add_one", "below"),
                 Edge("add_one", "fork", "value"),
                 Edge("fork", "merge", "value"),
                 Edge("fork", "final", "value"),
                 Edge("other_entry", "final", "value"),
                 Edge("below_10", "add_two", "above")>>]

\* two loops through the same node
TwoLoopsPipeline ==
    [nodes |-> <<"entry_point", "merge", "hub", "side">>,
     instances |-> <<Node("NoOp", 0), Node("Merge", 2), Node("NoOp", 0), Node("NoOp", 0)>>,
     edges |-> <<Edge("entry_point", "merge", "value"),
                 Edge("merge", "hub", "value"),
                 Edge("hub", "merge", "value"),
                 Edge("hub", "side", "value"),
                 Edge("side", "hub", "value")>>]

\* a classifier whose taken branch ends in a terminal node and whose other
\* branch is summed, by a Sum that cannot take None, with a second entry point
FailingMergePipeline ==
    [nodes |-> <<"classify", "other", "small", "large", "total">>,
     instances |-> <<Node("Below", Threshold), Node("AddValue", 1), Node("AddValue", 1),
                     Node("AddValue", 2), Node("StrictSum", 2)>>,
     edges |-> <<Edge("classify", "small", "below"),
                 Edge("classify", "large", "above"),
                 Edge("large", "total", "value"),
                 Edge("other", "total", "value")>>]

\* one node with two outputs, each connected to a terminal node
TwoOutputsPipeline ==
    [nodes |-> <<"test_node", "empty1", "empty2">>,
     instances |-> <<Node("Split", 2), Node("NoOp", 0), Node("NoOp", 0)>>,
     edges |-> <<Edge("test_node", "empty1", "edge_1"),
                 Edge("test_node", "empty2", "edge_2")>>]

Graphs ==
    {TwoOutputsPipeline, FailingMergePipeline, MergingPipeline, LongStrictMergingPipeline, LongMergingPipeline, DecisionAndMergePipeline, DecisionPipeline,
     LoopingPipeline, StuckLoopingPipeline, LoopAndMergePipeline, TwoLoopsPipeline}

\* ------------------------------------------------------------------------
\* Graph queries (networkx)
\* ------------------------------------------------------------------------
NodeNames(g) == SeqRange(g.nodes)

\* self.graph.nodes[name]["instance"]
Instance(g, name) == g.instances[SeqIndex(g.nodes, name)]

\* self.graph.in_edges(name, data=True), in insertion order
InEdges(g, name) == SelectSeq(g.edges, LAMBDA e : e.dst = name)

\* self.graph.out_edges(name, data=True), in insertion order
OutEdges(g, name) == SelectSeq(g.edges, LAMBDA e : e.src = name)

Successors(g, S) == {e.dst : e \in {x \in SeqRange(g.edges) : x.src \in S}}

RECURSIVE Descendants(_, _)
Descendants(g, S) ==
    LET T == S \cup Successors(g, S)
    IN IF T = S THEN S ELSE Descendants(g, T)

\* nx.has_path(graph, source, target); a node has a path to itself
HasPath(g, source, target) == target \in Descendants(g, {source})

\* the nodes taking no input edges, in graph order
LocatePipelineInputNodes(g) == SelectSeq(g.nodes, LAMBDA n : InEdges(g, n) = <<>>)

\* ------------------------------------------------------------------------
\* State
\* ------------------------------------------------------------------------
VARIABLES
    graph,             \* self.graph: nodes, instances and edges
    visits,            \* self.graph.nodes[name]["visits"]
    data,              \* the value run() is called with: {"value": data}
    pc,                \* "idle", "running", or how the last run ended
    inputs_buffer,     \* the OrderedDict of run(), earliest entry first
    pipeline_results,  \* the results dictionary of run(): <<name, payloads>>
    returned,          \* what the last run returned
    runs,              \* how many times run() was called
    log,               \* this run's node calls, in order: [node, data, how]
    visited,           \* how often each node was called or skipped in this run
    emitted,           \* the edges a contribution went through in this run
    omitted,           \* the edges some call of this run left out of its result
    lastPop,           \* the entry the last iteration popped
    outcomes,          \* how each run ended: [status, returned, log]
    default_parameters, \* self.graph.nodes[name]["parameters"], given to add_node
    run_parameters,    \* the parameters argument the caller gives to run()
    parameters,        \* the parameters dictionary of run(): the one object every
                       \* buffer entry refers to, as the nodes hand it on unchanged
    error,             \* the exception the last run raised
    node_buffer,       \* haystack's run(): inputs_buffer[node_name] of one node,
                       \* a list of [data, weight] kept sorted by weight
    arrived,           \* the same contributions in the order they were delivered
    input_data,        \* haystack's run(): the merged input the node is called with
    nodes,             \* the list of node references the last connect() was given
    raised,            \* the exception the last connect() or add_node() raised, "" if none
    connects,          \* how many times connect() was called
    skipped,           \* whether the last connect() ended at its "already exists:
                       \* skipping" return
    add_node,          \* the arguments of the last add_node(): name, instance, parameters
    warm,              \* the graph and the default parameters cool_down() started from
    file,              \* what save() wrote: the node-link data of the cold graph
    pipe2,             \* the pipeline loaded from the file: graph and default parameters
    modules_to_search, \* the modules find_actions() was given, each with its actions
    available_actions, \* the dictionary find_actions() returned
    objects            \* the parameter dictionaries of a run whose nodes return
                       \* parameters: objects[1] is the parameters of run()

vars ==
    <<graph, visits, data, pc, inputs_buffer, pipeline_results, returned, runs, log,
      visited, emitted, omitted, lastPop, outcomes, default_parameters, run_parameters,
      parameters, error, node_buffer, arrived, input_data, nodes, raised, connects,
      skipped, add_node, warm, file, pipe2,
      modules_to_search, available_actions, objects>>

\* what Pipeline.run of new_haystack does not touch
otherVars ==
    <<node_buffer, arrived, input_data, nodes, raised, connects, skipped, add_node, warm,
      file, pipe2,
      modules_to_search, available_actions, objects>>

\* save() was not called, no pipeline was loaded
NoFile == [nodes |-> <<>>, links |-> <<>>]
NotLoaded == [graph |-> <<>>, parameters |-> <<>>]

\* cool_down() was not called
NotCooled == [graph |-> <<>>, parameters |-> <<>>]

\* add_node() was not called
NotCalled == [name |-> "", instance |-> <<>>, parameters |-> <<>>]

NoResult == [shape |-> "none", results |-> {}]

NoError == [kind |-> "", node |-> "", data |-> <<>>, parameters |-> {}, cause |-> ""]

\* the default parameters the nodes are added with: none, or two keys for
\* the second node of the graph
DefaultParameterChoices(g) ==
    {[n \in NodeNames(g) |-> {}],
     [n \in NodeNames(g) |-> IF n = g.nodes[2] THEN {<<"k", 1>>, <<"m", 1>>} ELSE {}]}

\* the parameters run() is called with: none, one of the default keys for
\* the second node, or a key of its own
RunParameterChoices(g) ==
    {{}, {<<g.nodes[2], {<<"k", 2>>}>>}, {<<g.nodes[2], {<<"n", 2>>}>>}}

\* ------------------------------------------------------------------------
\* The inputs buffer
\* ------------------------------------------------------------------------
Contribution(label, value, src) == [label |-> label, value |-> value, src |-> src]

Labels(contributions) == [i \in 1..Len(contributions) |-> contributions[i].label]

Stamps(buffer) == {buffer[i].stamp : i \in 1..Len(buffer)}

InBuffer(buffer, name) == \E i \in 1..Len(buffer) : buffer[i].node = name

\* inputs_buffer[name] = {"data": contributions} for a name that is not in it
Insert(buffer, name, contributions) ==
    Append(buffer, [node |-> name, data |-> contributions, stamp |-> SetMax(Stamps(buffer)) + 1])

\* a delivery that replaces what the entry held
AppendDataAlone(buffer, name, contribution) ==
    [i \in 1..Len(buffer) |->
        IF buffer[i].node = name
        THEN [buffer[i] EXCEPT !.data = <<contribution>>]
        ELSE buffer[i]]

\* inputs_buffer[name]["data"].append(contribution)
AppendData(buffer, name, contribution) ==
    [i \in 1..Len(buffer) |->
        IF buffer[i].node = name
        THEN [buffer[i] EXCEPT !.data = Append(@, contribution)]
        ELSE buffer[i]]

\* a scheduler that takes the latest entry instead
PopItemLast(buffer) ==
    [item |-> buffer[Len(buffer)], rest |-> SubSeq(buffer, 1, Len(buffer) - 1)]

\* inputs_buffer.popitem(last=False)
PopItem(buffer) == [item |-> Head(buffer), rest |-> Tail(buffer)]

\* insertion stamps are kept relative to the earliest entry
Renumber(buffer) ==
    LET shift == SetMin(Stamps(buffer)) - 1
    IN [i \in 1..Len(buffer) |-> [buffer[i] EXCEPT !.stamp = @ - shift]]

\* sorted(a) == sorted(b)
SameSorted(a, b) ==
    /\ Len(a) = Len(b)
    /\ \A x \in SeqRange(a) \cup SeqRange(b) : SeqCount(a, x) = SeqCount(b, x)

\* for input_expected in inputs_to_wait_for:
\*     if input_expected in inputs_received:
\*         inputs_to_wait_for.pop(inputs_to_wait_for.index(input_expected))
\* the list is changed while the loop walks it by position
RECURSIVE MissingInputs(_, _, _)
MissingInputs(inputs_to_wait_for, position, inputs_received) ==
    IF position > Len(inputs_to_wait_for) THEN inputs_to_wait_for
    ELSE IF inputs_to_wait_for[position] \in SeqRange(inputs_received)
         THEN MissingInputs(SeqPop(inputs_to_wait_for,
                                   SeqIndex(inputs_to_wait_for, inputs_to_wait_for[position])),
                            position + 1, inputs_received)
         ELSE MissingInputs(inputs_to_wait_for, position + 1, inputs_received)

\* node_inputs["data"].append((missing_input, None)) for every missing input
WithNone(contributions, missing) ==
    contributions \o [i \in 1..Len(missing) |-> Contribution(missing[i], None, "none")]

\* the in-edges a node waits for: all of them for a node with one input,
\* those whose source is not downstream of the node for a merge node
EdgesToWaitFor(g, name) ==
    LET is_merge_node == Len(InEdges(g, name)) # 1
    IN SelectSeq(InEdges(g, name), LAMBDA e : ~is_merge_node \/ ~HasPath(g, name, e.src))

\* if not inputs_received: all upstream nodes were skipped
\* a scheduler that never skips a node
NothingReceivedNever(inputs_received) == FALSE

NothingReceived(inputs_received) == inputs_received = <<>>

\* "IS IT MY TURN?": what the iteration does with the popped entry
Turn(g, vis, item) ==
    LET name == item.node
        inputs_received == Labels(item.data)
        waited == EdgesToWaitFor(g, name)
        inputs_to_wait_for == Labels(waited)
    IN IF vis[name] > MaxLoopsAllowed THEN [do |-> "max_loops", how |-> "", data |-> <<>>]
       ELSE IF name \in SeqRange(LocatePipelineInputNodes(g)) THEN [do |-> "run", how |-> "input", data |-> item.data]
       ELSE IF waited = <<>> THEN [do |-> "unpack", how |-> "", data |-> <<>>]
       ELSE IF SameSorted(inputs_to_wait_for, inputs_received) THEN [do |-> "run", how |-> "complete", data |-> item.data]
       ELSE IF ~ \A i \in 1..Len(waited) : vis[waited[i].src] > 0 THEN [do |-> "put_back", how |-> "", data |-> <<>>]
       ELSE IF NothingReceived(inputs_received) THEN [do |-> "skip", how |-> "", data |-> <<>>]
       ELSE [do |-> "run", how |-> "partial",
             data |-> WithNone(item.data, MissingInputs(inputs_to_wait_for, 1, inputs_received))]

\* a node with several output edges, one of which leads back to it
IsDecisionNodeForLoop(g, name) ==
    /\ \E i \in 1..Len(OutEdges(g, name)) : HasPath(g, OutEdges(g, name)[i].dst, name)
    /\ Len(OutEdges(g, name)) > 1

OutLabels(out) == {pair[1] : pair \in out}
OutValue(out, label) == (CHOOSE pair \in out : pair[1] = label)[2]

\* a routing that leaves no target out
LeftOutNever(g, name, out) == {}

\* the edges of a node whose target gets nothing, not even an empty entry
LeftOut(g, name, out) ==
    {e \in SeqRange(OutEdges(g, name)) : IsDecisionNodeForLoop(g, name) /\ e.label \notin OutLabels(out)}

\* "PROCESS THE OUTPUT" of a node with output edges
RECURSIVE Route(_, _, _, _, _)
Route(buffer, g, name, out, edges) ==
    IF edges = <<>> THEN buffer
    ELSE LET e == Head(edges)
             created == IF InBuffer(buffer, e.dst) THEN buffer ELSE Insert(buffer, e.dst, <<>>)
             filled == IF e.label \in OutLabels(out)
                       THEN AppendData(created, e.dst,
                                       Contribution(e.label, OutValue(out, e.label), name))
                       ELSE created
         IN IF e \in LeftOut(g, name, out)
            THEN Route(buffer, g, name, out, Tail(edges))
            ELSE Route(filled, g, name, out, Tail(edges))

\* a run that keeps the last payload of a terminal node only
AppendResultReplacing(results, name, payload) ==
    {r \in results : r[1] # name} \cup {<<name, <<payload>>>>}

\* pipeline_results[name].append(payload)
AppendResult(results, name, payload) ==
    IF \E r \in results : r[1] = name
    THEN {IF r[1] = name THEN <<name, Append(r[2], payload)>> ELSE r : r \in results}
    ELSE results \cup {<<name, <<payload>>>>}

\* a skip that leaves the buffer as it is
SeedNothing(buffer, edges) == buffer

\* a skipped node puts the downstream nodes that are not in the buffer in it
RECURSIVE SeedDownstream(_, _)
SeedDownstream(buffer, edges) ==
    IF edges = <<>> THEN buffer
    ELSE SeedDownstream(IF InBuffer(buffer, Head(edges).dst) THEN buffer
                        ELSE Insert(buffer, Head(edges).dst, <<>>),
                        Tail(edges))

\* a run that gives the pipeline input to its first entry point only
SeedFirstInput(buffer, names, value) ==
    IF names = <<>> THEN buffer
    ELSE Insert(buffer, Head(names), <<Contribution("value", value, "input")>>)

\* every input node gets the pipeline input
RECURSIVE SeedInputs(_, _, _)
SeedInputs(buffer, names, value) ==
    IF names = <<>> THEN buffer
    ELSE SeedInputs(Insert(buffer, Head(names), <<Contribution("value", value, "input")>>),
                    Tail(names), value)

\* a merge in which the defaults win over the caller's values
WithDefaultsOnTop(params, defaults, name) ==
    IF defaults[name] # {}
    THEN SetItem(params, name, Update(Get(params, name), defaults[name]))
    ELSE params

\* "Check for default parameters and add them to the parameter's dictionary":
\* node_inputs["parameters"][name] = {**defaults, **parameters.get(name, {})}
WithDefaults(params, defaults, name) ==
    IF defaults[name] # {}
    THEN SetItem(params, name, Update(defaults[name], Get(params, name)))
    ELSE params

\* a run that unwraps the results of a single terminal node down to its
\* first payload, however many payloads it produced
SimplifyToFirst(results) ==
    IF Cardinality(results) = 1
    THEN [shape |-> "payload", results |-> results]
    ELSE [shape |-> "dict", results |-> results]

\* "Simplify output for single edge, single output pipelines"
Simplify(results) ==
    IF Cardinality(results) = 1
    THEN IF \A r \in results : Len(r[2]) = 1
         THEN [shape |-> "payload", results |-> results]
         ELSE [shape |-> "list", results |-> results]
    ELSE [shape |-> "dict", results |-> results]

\* ------------------------------------------------------------------------
\* Pipeline.run
\* ------------------------------------------------------------------------
Init ==
    /\ graph \in Graphs
    /\ data \in 0..MaxValue
    /\ visits = [n \in NodeNames(graph) |-> 0]
    /\ pc = "idle"
    /\ inputs_buffer = <<>>
    /\ pipeline_results = {}
    /\ returned = NoResult
    /\ runs = 0
    /\ log = <<>>
    /\ visited = [n \in NodeNames(graph) |-> 0]
    /\ emitted = {}
    /\ omitted = {}
    /\ lastPop = [node |-> "", earliest |-> TRUE]
    /\ outcomes = <<>>
    /\ default_parameters \in DefaultParameterChoices(graph)
    /\ run_parameters \in RunParameterChoices(graph)
    /\ parameters = {}
    /\ error = NoError
    /\ node_buffer = <<>>
    /\ arrived = <<>>
    /\ input_data = {}
    /\ nodes = <<>>
    /\ raised = ""
    /\ connects = 0
    /\ skipped = FALSE
    /\ add_node = NotCalled
    /\ warm = NotCooled
    /\ file = NoFile
    /\ pipe2 = NotLoaded
    /\ modules_to_search = <<>>
    /\ available_actions = {}
    /\ objects = <<>>

\* run() is called: the entry points receive the pipeline input
StartRun ==
    /\ pc # "running"
    /\ runs < MaxRuns
    /\ pc' = "running"
    /\ runs' = runs + 1
    /\ inputs_buffer' = SeedInputs(<<>>, LocatePipelineInputNodes(graph), data)
    /\ pipeline_results' = {}
    /\ returned' = NoResult
    /\ log' = <<>>
    /\ visited' = [n \in NodeNames(graph) |-> 0]
    /\ emitted' = {}
    /\ omitted' = {}
    /\ lastPop' = [node |-> "", earliest |-> TRUE]
    /\ parameters' = run_parameters
    /\ error' = NoError
    /\ UNCHANGED <<graph, visits, data, outcomes, default_parameters, run_parameters>>
    /\ UNCHANGED otherVars

Popped == PopItem(inputs_buffer)

\* a node call as the log keeps it
Call(name, turn, params) ==
    [node |-> name, data |-> turn.data, how |-> turn.how, parameters |-> params]

Pop(do) ==
    /\ pc = "running"
    /\ inputs_buffer # <<>>
    /\ Turn(graph, visits, Popped.item).do = do
    /\ lastPop' = [node |-> Popped.item.node,
                   earliest |-> \A s \in Stamps(inputs_buffer) : Popped.item.stamp <= s]

\* a run that hands back what the terminal nodes produced before it failed
AbortWithResults(status, calls) ==
    /\ pc' = status
    /\ inputs_buffer' = <<>>
    /\ pipeline_results' = {}
    /\ returned' = Simplify(pipeline_results)
    /\ outcomes' = Append(outcomes, [status |-> status, returned |-> NoResult, log |-> calls])

\* run() ends with an exception: its buffer and results are lost
Abort(status, calls) ==
    /\ pc' = status
    /\ inputs_buffer' = <<>>
    /\ pipeline_results' = {}
    /\ returned' = NoResult
    /\ outcomes' = Append(outcomes, [status |-> status, returned |-> NoResult, log |-> calls])

\* the popped node was visited too many times: PipelineMaxLoops
RaiseMaxLoops ==
    /\ Pop("max_loops")
    /\ Abort("max_loops", log)
    /\ error' = [NoError EXCEPT !.kind = "PipelineMaxLoops", !.node = Popped.item.node]
    /\ UNCHANGED <<graph, visits, data, runs, log, visited, emitted, omitted,
                   default_parameters, run_parameters, parameters>>
    /\ UNCHANGED otherVars

\* the popped node waits for no edge at all: zip(*[]) cannot be unpacked
RaiseUnpack ==
    /\ Pop("unpack")
    /\ Abort("value_error", log)
    /\ error' = [NoError EXCEPT !.kind = "ValueError"]
    /\ UNCHANGED <<graph, visits, data, runs, log, visited, emitted, omitted,
                   default_parameters, run_parameters, parameters>>
    /\ UNCHANGED otherVars

\* some input is missing and some upstream node did not run: wait
PutBack ==
    /\ Pop("put_back")
    /\ inputs_buffer' = Renumber(Insert(Popped.rest, Popped.item.node, Popped.item.data))
    /\ UNCHANGED <<graph, visits, data, pc, pipeline_results, returned, runs, log, visited,
                   emitted, omitted, outcomes, default_parameters, run_parameters,
                   parameters, error>>
    /\ UNCHANGED otherVars

\* no input at all and all upstream nodes ran: skip the node
SkipNode ==
    /\ Pop("skip")
    /\ visits' = [visits EXCEPT ![Popped.item.node] = @ + 1]
    /\ inputs_buffer' = Renumber(SeedDownstream(Popped.rest, OutEdges(graph, Popped.item.node)))
    /\ visited' = [visited EXCEPT ![Popped.item.node] = @ + 1]
    /\ UNCHANGED <<graph, data, pc, pipeline_results, returned, runs, log, emitted, omitted,
                   outcomes, default_parameters, run_parameters, parameters, error>>
    /\ UNCHANGED otherVars

\* the node is called and returns: its output is stored or distributed
RunNode ==
    LET name == Popped.item.node
        node_inputs == Turn(graph, visits, Popped.item).data
        node_results == NodeRun(Instance(graph, name), node_inputs)
        edges == OutEdges(graph, name)
    IN /\ Pop("run")
       /\ node_results.ok
       /\ visits' = [visits EXCEPT ![name] = @ + 1]
       /\ parameters' = WithDefaults(parameters, default_parameters, name)
       /\ log' = Append(log, Call(name, Turn(graph, visits, Popped.item), parameters'))
       /\ visited' = [visited EXCEPT ![name] = @ + 1]
       /\ emitted' = emitted \cup {e \in SeqRange(edges) : e.label \in OutLabels(node_results.out)}
       /\ omitted' = omitted \cup {e \in SeqRange(edges) : e.label \notin OutLabels(node_results.out)}
       /\ IF edges = <<>>
          THEN /\ pipeline_results' = AppendResult(pipeline_results, name, node_results.out)
               /\ inputs_buffer' = Renumber(Popped.rest)
          ELSE /\ pipeline_results' = pipeline_results
               /\ inputs_buffer' = Renumber(Route(Popped.rest, graph, name, node_results.out, edges))
       /\ UNCHANGED <<graph, data, pc, returned, runs, outcomes, default_parameters,
                      run_parameters, error>>
       /\ UNCHANGED otherVars

\* an error that names the node only
PipelineRuntimeErrorBare(name, node_inputs, params, cause) ==
    [kind |-> "PipelineRuntimeError", node |-> name, data |-> <<>>, parameters |-> {},
     cause |-> ""]

\* raise PipelineRuntimeError(f"{node_name} raised '{e.__class__.__name__}: {e}'
\*     inputs={node_inputs['data']} parameters={node_inputs.get('parameters')}") from e
PipelineRuntimeError(name, node_inputs, params, cause) ==
    [kind |-> "PipelineRuntimeError", node |-> name, data |-> node_inputs,
     parameters |-> params, cause |-> cause]

\* the node is called and raises: PipelineRuntimeError
NodeRaises ==
    LET name == Popped.item.node
        node_inputs == Turn(graph, visits, Popped.item).data
    IN /\ Pop("run")
       /\ ~ NodeRun(Instance(graph, name), node_inputs).ok
       /\ visits' = [visits EXCEPT ![name] = @ + 1]
       /\ parameters' = WithDefaults(parameters, default_parameters, name)
       /\ log' = Append(log, Call(name, Turn(graph, visits, Popped.item), parameters'))
       /\ visited' = [visited EXCEPT ![name] = @ + 1]
       /\ Abort("runtime_error", log')
       /\ error' = PipelineRuntimeError(name, node_inputs, parameters',
                                        NodeException(Instance(graph, name), node_inputs))
       /\ UNCHANGED <<graph, data, runs, emitted, omitted, default_parameters, run_parameters>>
       /\ UNCHANGED otherVars

\* the buffer is empty: run() returns the results
Return ==
    /\ pc = "running"
    /\ inputs_buffer = <<>>
    /\ pc' = "returned"
    /\ returned' = Simplify(pipeline_results)
    /\ outcomes' = Append(outcomes, [status |-> "returned", returned |-> returned', log |-> log])
    /\ UNCHANGED <<graph, visits, data, inputs_buffer, pipeline_results, runs, log, visited,
                   emitted, omitted, lastPop, default_parameters, run_parameters,
                   parameters, error>>
    /\ UNCHANGED otherVars

Next ==
    \/ StartRun
    \/ RaiseMaxLoops
    \/ RaiseUnpack
    \/ PutBack
    \/ SkipNode
    \/ RunNode
    \/ NodeRaises
    \/ Return

Spec == Init /\ [][Next]_vars

TypeOK ==
    /\ pc \in {"idle", "running", "returned", "max_loops", "value_error", "runtime_error"}
    /\ runs \in 0..MaxRuns
    /\ \A n \in NodeNames(graph) : visits[n] \in 0..(MaxLoopsAllowed + 1)

\* ------------------------------------------------------------------------
\* haystack/pipeline/pipeline.py: how run() merges the contributions that
\* wait for one node.  A value of a dictionary is a scalar, a list or a
\* dictionary: [kind, scalar, list, dict], with the fields of the other
\* kinds left empty.
\* ------------------------------------------------------------------------
\* the weights connect() is called with are in 1..MaxWeight
MaxWeight == 2
\* how many contributions wait for the node
MaxContributions == 3

Scalar(v) == [kind |-> "scalar", scalar |-> v, list |-> <<>>, dict |-> {}]
List(l) == [kind |-> "list", scalar |-> 0, list |-> l, dict |-> {}]
Dict(d) == [kind |-> "dict", scalar |-> 0, list |-> <<>>, dict |-> d]

\* merge(first_dict, second_dict): the first dictionary's values dominate,
\* dictionaries are merged recursively, lists are chained
RECURSIVE merge(_, _)
merge(first_dict, second_dict) ==
    LET merge_dictionary == Update(second_dict, first_dict)
        both(key) == key \in Keys(first_dict) /\ key \in Keys(second_dict)
        kinds(key) == <<Get(first_dict, key).kind, Get(second_dict, key).kind>>
    IN {<<key,
          IF both(key) /\ kinds(key) = <<"dict", "dict">>
          THEN Dict(merge(Get(first_dict, key).dict, Get(second_dict, key).dict))
          ELSE IF both(key) /\ kinds(key) = <<"list", "list">>
               THEN List(Get(first_dict, key).list \o Get(second_dict, key).list)
               ELSE Get(merge_dictionary, key)>> : key \in Keys(merge_dictionary)}

\* the data a contribution can carry
ContributionData ==
    {{<<"x", Scalar(1)>>}, {<<"x", Scalar(2)>>},
     {<<"x", List(<<1>>)>>}, {<<"x", List(<<2>>)>>},
     {<<"x", Dict({<<"y", Scalar(1)>>})>>},
     {<<"x", Dict({<<"y", Scalar(2)>>, <<"z", Scalar(2)>>})>>}}

\* list.sort(key=lambda x: x["weight"]) is stable: an element goes after
\* the elements that are not heavier
InsertByWeight(sorted, x) ==
    SelectSeq(sorted, LAMBDA y : y.weight <= x.weight) \o <<x>>
        \o SelectSeq(sorted, LAMBDA y : y.weight > x.weight)

RECURSIVE SortByWeight(_)
SortByWeight(s) ==
    IF s = <<>> THEN <<>>
    ELSE InsertByWeight(SortByWeight(SubSeq(s, 1, Len(s) - 1)), s[Len(s)])

\* for node_input_values in inputs_buffer[node_name]:
\*     input_data = merge(input_data, node_input_values["data"])
RECURSIVE MergeAll(_, _)
MergeAll(buffer, merged) ==
    IF buffer = <<>> THEN merged
    ELSE MergeAll(Tail(buffer), merge(merged, Head(buffer).data))

MergeInit ==
    /\ graph = MergingPipeline
    /\ data = 0
    /\ visits = [n \in NodeNames(graph) |-> 0]
    /\ pc = "collecting"
    /\ inputs_buffer = <<>>
    /\ pipeline_results = {}
    /\ returned = NoResult
    /\ runs = 0
    /\ log = <<>>
    /\ visited = [n \in NodeNames(graph) |-> 0]
    /\ emitted = {}
    /\ omitted = {}
    /\ lastPop = [node |-> "", earliest |-> TRUE]
    /\ outcomes = <<>>
    /\ default_parameters = [n \in NodeNames(graph) |-> {}]
    /\ run_parameters = {}
    /\ parameters = {}
    /\ error = NoError
    /\ node_buffer = <<>>
    /\ arrived = <<>>
    /\ input_data = {}
    /\ nodes = <<>>
    /\ raised = ""
    /\ connects = 0
    /\ skipped = FALSE
    /\ add_node = NotCalled
    /\ warm = NotCooled
    /\ file = NoFile
    /\ pipe2 = NotLoaded
    /\ modules_to_search = <<>>
    /\ available_actions = {}
    /\ objects = <<>>

\* what the merging of one node's inputs does not touch
runVars ==
    <<graph, visits, data, inputs_buffer, pipeline_results, returned, runs, log, visited,
      emitted, omitted, lastPop, outcomes, default_parameters, run_parameters, parameters,
      error, nodes, raised, connects, skipped, add_node, warm, file, pipe2,
      modules_to_search, available_actions, objects>>

\* an upstream node stores its output in the buffer of the node:
\* inputs_buffer[outgoing_node].append({...}); inputs_buffer[outgoing_node].sort(...)
Deliver ==
    /\ pc = "collecting"
    /\ Len(node_buffer) < MaxContributions
    /\ \E d \in ContributionData, w \in 1..MaxWeight :
           /\ node_buffer' = SortByWeight(Append(node_buffer, [data |-> d, weight |-> w]))
           /\ arrived' = Append(arrived, [data |-> d, weight |-> w])
    /\ UNCHANGED <<pc, input_data>>
    /\ UNCHANGED runVars

\* the node's turn: its inputs are merged into one dictionary
MergeInputs ==
    /\ pc = "collecting"
    /\ node_buffer # <<>>
    /\ input_data' = MergeAll(node_buffer, {})
    /\ pc' = "merged"
    /\ UNCHANGED <<node_buffer, arrived>>
    /\ UNCHANGED runVars

MergeNext ==
    \/ Deliver
    \/ MergeInputs

MergeSpec == MergeInit /\ [][MergeNext]_vars

\* ------------------------------------------------------------------------
\* Pipeline.connect of new_haystack: the graph is built edge by edge
\* ------------------------------------------------------------------------
MaxConnects == 2

\* a node instance with its contract: instance.inputs and instance.outputs
Declared(inputs, outputs) == [inputs |-> inputs, outputs |-> outputs]

\* the nodes a pipeline holds after its add_node calls, not yet connected:
\* AddValue and Sum of the merging test, a node with two outputs, a node
\* that takes both, and a node without outputs
UnconnectedPipeline ==
    [nodes |-> <<"first_addition", "sum", "fourth_addition", "test_node", "empty", "last">>,
     instances |-> <<Declared(<<"value">>, <<"value">>),
                     Declared(<<"value", "value">>, <<"sum">>),
                     Declared(<<"sum">>, <<"value">>),
                     Declared(<<"value">>, <<"edge_1", "edge_2">>),
                     Declared(<<"edge_1", "edge_2">>, <<"value">>),
                     Declared(<<"value">>, <<>>)>>,
     edges |-> <<>>]

\* a node reference, cut at its dots: "name" is <<name>>, "name.edge" is
\* <<name, edge>>; "missing" names no node of the pipeline
References ==
    {<<n>> : n \in NodeNames(UnconnectedPipeline) \cup {"missing"}}
        \cup {<<"first_addition", "edge">>, <<"test_node", "edge_1">>,
              <<"test_node", "edge_2">>, <<"sum", "value">>}

\* the lists connect() is called with: every pair of references, the lists
\* of three that go through sum or first_addition, and the lists of four
\* that go from test_node to empty twice
ConnectCalls ==
    {<<a, b>> : a \in References, b \in References}
        \cup {<<<<a>>, b, c>> : a \in NodeNames(UnconnectedPipeline),
                                b \in {<<"sum">>, <<"first_addition">>},
                                c \in {<<"fourth_addition">>, <<"sum">>, <<"missing">>}}
        \cup {<<a, <<"empty">>, b, <<"empty">>>> :
                  a \in {<<"test_node", "edge_1">>, <<"test_node", "edge_2">>},
                  b \in {<<"test_node", "edge_1">>, <<"test_node", "edge_2">>}}

\* a connect that takes every declared slot for free
FreeSlotsDeclared(free, taken) == [ok |-> TRUE, free |-> free]

\* free = deepcopy(declared); for each edge: free.pop(free.index(label));
\* list.index raises ValueError on a label that is not in the list
RECURSIVE FreeSlots(_, _)
FreeSlots(free, taken) ==
    IF taken = <<>> THEN [ok |-> TRUE, free |-> free]
    ELSE IF Head(taken) \notin SeqRange(free) THEN [ok |-> FALSE, free |-> free]
    ELSE FreeSlots(SeqPop(free, SeqIndex(free, Head(taken))), Tail(taken))

\* self.graph.add_edge(u, v, label=...) on a DiGraph: one edge per (u, v), a
\* second add_edge for the same pair updates the label of the edge in place
AddEdge(g, u, v, label) ==
    IF \E i \in 1..Len(g.edges) : g.edges[i].src = u /\ g.edges[i].dst = v
    THEN [g EXCEPT !.edges = [i \in 1..Len(g.edges) |->
              IF g.edges[i].src = u /\ g.edges[i].dst = v
              THEN Edge(u, v, label) ELSE g.edges[i]]]
    ELSE [g EXCEPT !.edges = Append(@, Edge(u, v, label))]

\* a connect that takes the first output of a node that declares several
AmbiguousIfNone(upstream, upstream_node) ==
    Len(upstream) = 1 /\ Len(upstream_node.outputs) = 0

\* if len(upstream_node.outputs) != 1, for a reference without a dot
Ambiguous(upstream, upstream_node) ==
    Len(upstream) = 1 /\ Len(upstream_node.outputs) # 1

\* any(edge[1] == downstream_node_name and edge[2]["label"] == edge_name
\*     for edge in self.graph.edges.data(nbunch=upstream_node_name))
EdgeExists(g, upstream_node_name, downstream_node_name, edge_name) ==
    \E e \in SeqRange(OutEdges(g, upstream_node_name)) :
        e.dst = downstream_node_name /\ e.label = edge_name

\* how one pair of the loop ends: the graph, the exception, and whether the
\* call returned
Connected(g, exception, return) == [graph |-> g, raised |-> exception, return |-> return]

\* the body of the loop of connect() for one pair of references; the two
\* "is not present" checks come after self.graph.nodes[name]["instance"],
\* which raises KeyError for such a name, so they are never reached
ConnectPair(g, upstream, downstream) ==
    LET upstream_node_name == upstream[1]
        downstream_node_name == downstream[1]
    IN  IF upstream_node_name \notin NodeNames(g) THEN Connected(g, "KeyError", FALSE)
        ELSE LET upstream_node == Instance(g, upstream_node_name) IN
        IF Ambiguous(upstream, upstream_node)
        THEN Connected(g, "PipelineConnectError", FALSE)
        ELSE LET edge_name ==
                     IF Len(upstream) > 1 THEN upstream[2] ELSE upstream_node.outputs[1] IN
        IF downstream_node_name \notin NodeNames(g) THEN Connected(g, "KeyError", FALSE)
        ELSE LET downstream_node == Instance(g, downstream_node_name) IN
        IF EdgeExists(g, upstream_node_name, downstream_node_name, edge_name)
        THEN Connected(g, "", TRUE)
        ELSE LET free_downstream_inputs ==
                     FreeSlots(downstream_node.inputs, Labels(InEdges(g, downstream_node_name)))
                 free_upstream_outputs ==
                     FreeSlots(upstream_node.outputs, Labels(OutEdges(g, upstream_node_name)))
             IN
        IF ~ free_downstream_inputs.ok \/ ~ free_upstream_outputs.ok
        THEN Connected(g, "ValueError", FALSE)
        ELSE IF \/ edge_name \notin SeqRange(free_downstream_inputs.free)
                \/ edge_name \notin SeqRange(free_upstream_outputs.free)
        THEN Connected(g, "PipelineConnectError", FALSE)
        ELSE Connected(AddEdge(g, upstream_node_name, downstream_node_name, edge_name),
                       "", FALSE)

\* for position in range(len(nodes) - 1): ... ; an exception or the return
\* ends the call, with the edges of the earlier pairs in the graph
RECURSIVE ConnectFrom(_, _, _)
ConnectFrom(g, refs, position) ==
    IF position > Len(refs) - 1 THEN Connected(g, "", FALSE)
    ELSE LET pair == ConnectPair(g, refs[position], refs[position + 1])
         IN  IF pair.raised # "" \/ pair.return THEN pair
             ELSE ConnectFrom(pair.graph, refs, position + 1)

ConnectInit ==
    /\ graph = UnconnectedPipeline
    /\ data = 0
    /\ visits = [n \in NodeNames(graph) |-> 0]
    /\ pc = "building"
    /\ inputs_buffer = <<>>
    /\ pipeline_results = {}
    /\ returned = NoResult
    /\ runs = 0
    /\ log = <<>>
    /\ visited = [n \in NodeNames(graph) |-> 0]
    /\ emitted = {}
    /\ omitted = {}
    /\ lastPop = [node |-> "", earliest |-> TRUE]
    /\ outcomes = <<>>
    /\ default_parameters = [n \in NodeNames(graph) |-> {}]
    /\ run_parameters = {}
    /\ parameters = {}
    /\ error = NoError
    /\ node_buffer = <<>>
    /\ arrived = <<>>
    /\ input_data = {}
    /\ nodes = <<>>
    /\ raised = ""
    /\ connects = 0
    /\ skipped = FALSE
    /\ add_node = NotCalled
    /\ warm = NotCooled
    /\ file = NoFile
    /\ pipe2 = NotLoaded
    /\ modules_to_search = <<>>
    /\ available_actions = {}
    /\ objects = <<>>

\* what connect() does not touch
builtVars ==
    <<visits, data, pc, inputs_buffer, pipeline_results, returned, runs, log, visited,
      emitted, omitted, lastPop, outcomes, default_parameters, run_parameters, parameters,
      error, node_buffer, arrived, input_data, add_node, warm, file, pipe2,
      modules_to_search, available_actions, objects>>

\* pipeline.connect(nodes)
Connect ==
    /\ pc = "building"
    /\ connects < MaxConnects
    /\ \E call \in ConnectCalls :
           /\ nodes' = call
           /\ \E connected \in {ConnectFrom(graph, call, 1)} :
                  /\ graph' = connected.graph
                  /\ raised' = connected.raised
                  /\ skipped' = connected.return
    /\ connects' = connects + 1
    /\ UNCHANGED builtVars

ConnectNext == Connect

ConnectSpec == ConnectInit /\ [][ConnectNext]_vars

\* ------------------------------------------------------------------------
\* Pipeline.add_node of new_haystack
\* ------------------------------------------------------------------------
\* an object given to add_node: which object it is, whether its type is
\* among self.available_nodes.values(), whether it has __haystack_node__
Object(id, registered, haystack_node) ==
    [id |-> id, registered |-> registered, haystack_node |-> haystack_node]

Objects == {Object(1, FALSE, TRUE), Object(2, TRUE, FALSE), Object(3, FALSE, FALSE)}

\* a value given as parameters: its type and its items, <<key, value>> for
\* a dict, <<index, item>> for a list or a string
Value(type, items) == [type |-> type, items |-> items]

ParametersValues ==
    {Value("NoneType", {}), Value("dict", {}), Value("dict", {<<"add", 1>>}),
     Value("list", {}), Value("list", {<<0, 1>>}), Value("str", {}),
     Value("str", {<<0, "a">>})}

\* bool(value): None and every empty container are false
Truthy(value) == value.type # "NoneType" /\ value.items # {}

\* Pipeline(): no nodes
EmptyPipeline == [nodes |-> <<>>, instances |-> <<>>, edges |-> <<>>]

\* a pipeline of two nodes, connected
BuiltPipeline ==
    [nodes |-> <<"first_addition", "sum">>,
     instances |-> <<Object(1, FALSE, TRUE), Object(2, TRUE, FALSE)>>,
     edges |-> <<Edge("first_addition", "sum", "value")>>]

\* the names add_node is called with
AddNodeNames == {"first_addition", "sum"}

\* an add_node that takes a name twice
NameTakenNever(g, name) == FALSE

\* if name in self.graph.nodes
NameTaken(g, name) == name \in NodeNames(g)

\* self.graph.add_node(name, instance=instance, ...): a new node, or new
\* attributes for the node of that name
GraphAddNode(g, name, instance) ==
    IF name \in NodeNames(g)
    THEN [g EXCEPT !.instances[SeqIndex(g.nodes, name)] = instance]
    ELSE [g EXCEPT !.nodes = Append(@, name), !.instances = Append(@, instance)]

\* the attribute of every node after self.graph.add_node(name, attribute=value)
WithAttribute(attributes, g, name, value) ==
    [n \in NodeNames(g) \cup {name} |-> IF n = name THEN value ELSE attributes[n]]

\* what add_node raises, "" if it adds the node
AddNodeRaises(g, name, instance, params) ==
    IF NameTaken(g, name) THEN "ValueError"
    ELSE IF ~ instance.registered /\ ~ instance.haystack_node THEN "PipelineValidationError"
    ELSE IF Truthy(params) /\ params.type # "dict" THEN "ValueError"
    ELSE ""

\* a new pipeline, or a pipeline that was built and run once with its
\* first node given default parameters
AddNodeInit ==
    /\ graph \in {EmptyPipeline, BuiltPipeline}
    /\ data = 0
    /\ visits = [n \in NodeNames(graph) |-> 1]
    /\ pc = "adding"
    /\ inputs_buffer = <<>>
    /\ pipeline_results = {}
    /\ returned = NoResult
    /\ runs = 0
    /\ log = <<>>
    /\ visited = [n \in NodeNames(graph) |-> 0]
    /\ emitted = {}
    /\ omitted = {}
    /\ lastPop = [node |-> "", earliest |-> TRUE]
    /\ outcomes = <<>>
    /\ default_parameters = [n \in NodeNames(graph) |->
           IF n = "first_addition" THEN Value("dict", {<<"add", 2>>}) ELSE Value("NoneType", {})]
    /\ run_parameters = {}
    /\ parameters = {}
    /\ error = NoError
    /\ node_buffer = <<>>
    /\ arrived = <<>>
    /\ input_data = {}
    /\ nodes = <<>>
    /\ raised = ""
    /\ connects = 0
    /\ skipped = FALSE
    /\ add_node = NotCalled
    /\ warm = NotCooled
    /\ file = NoFile
    /\ pipe2 = NotLoaded
    /\ modules_to_search = <<>>
    /\ available_actions = {}
    /\ objects = <<>>

\* what add_node() does not touch
addedVars ==
    <<data, pc, inputs_buffer, pipeline_results, returned, runs, log, visited, emitted,
      omitted, lastPop, outcomes, run_parameters, parameters, error, node_buffer, arrived,
      input_data, nodes, connects, skipped, warm, file, pipe2,
      modules_to_search, available_actions, objects>>

\* pipeline.add_node(name, instance, parameters)
AddNode ==
    /\ pc = "adding"
    /\ \E name \in AddNodeNames, instance \in Objects, params \in ParametersValues :
           /\ add_node' = [name |-> name, instance |-> instance, parameters |-> params]
           /\ raised' = AddNodeRaises(graph, name, instance, params)
           /\ IF raised' = ""
              THEN /\ graph' = GraphAddNode(graph, name, instance)
                   /\ visits' = WithAttribute(visits, graph, name, 0)
                   /\ default_parameters' = WithAttribute(default_parameters, graph, name, params)
              ELSE UNCHANGED <<graph, visits, default_parameters>>
    /\ UNCHANGED addedVars

AddNodeNext == AddNode

AddNodeSpec == AddNodeInit /\ [][AddNodeNext]_vars

\* ------------------------------------------------------------------------
\* validate of _utils.py
\* ------------------------------------------------------------------------
\* graph.nodes[node]["action"]: a function, or the name of a class of a
\* cold node; whether it is among available_actions, and whether the
\* validate() of the class accepts the init parameters of the node
Action(form, registered, accepted) ==
    [form |-> form, registered |-> registered, accepted |-> accepted]

Actions ==
    {Action("function", TRUE, TRUE), Action("function", FALSE, TRUE),
     Action("name", TRUE, FALSE)}

\* the nodes of the graphs given to validate, in graph order
ValidatedNames == <<"first_addition", "sum", "fourth_addition">>

RECURSIVE SetToSeq(_)
SetToSeq(S) ==
    IF S = {} THEN <<>>
    ELSE LET x == CHOOSE y \in S : TRUE IN <<x>> \o SetToSeq(S \ {x})

\* every graph on the names of N: any edges, self-loops included
ValidatedGraphs(N) ==
    {[nodes |-> SelectSeq(ValidatedNames, LAMBDA n : n \in N),
      instances |-> actions,
      edges |-> SetToSeq({Edge(pair[1], pair[2], "value") : pair \in E})] :
         actions \in [1..Cardinality(N) -> Actions], E \in SUBSET (N \X N)}

\* the nodes an edge joins to the nodes of S, whatever its direction
Neighbours(g, S) ==
    S \cup {e.dst : e \in {x \in SeqRange(g.edges) : x.src \in S}}
      \cup {e.src : e \in {x \in SeqRange(g.edges) : x.dst \in S}}

RECURSIVE Component(_, _)
Component(g, S) ==
    IF Neighbours(g, S) = S THEN S ELSE Component(g, Neighbours(g, S))

\* nx.is_weakly_connected(graph), for a graph with nodes
IsWeaklyConnected(g) == Component(g, {g.nodes[1]}) = NodeNames(g)

\* the checks of validate on one node: the action is registered, and the
\* validate() of a cold class node accepts its init parameters
CheckAction(action) ==
    IF ~ action.registered THEN "PipelineValidationError"
    ELSE IF action.form = "name" /\ ~ action.accepted THEN "ActionValidationError"
    ELSE ""

\* for node in graph.nodes: the first exception ends the loop
RECURSIVE CheckActions(_)
CheckActions(actions) ==
    IF actions = <<>> THEN ""
    ELSE IF CheckAction(Head(actions)) # "" THEN CheckAction(Head(actions))
    ELSE CheckActions(Tail(actions))

\* what validate(graph, available_actions) raises, "" if the graph is valid;
\* nx.is_weakly_connected raises NetworkXPointlessConcept on a graph
\* without nodes
Validate(g) ==
    IF g.nodes = <<>> THEN "NetworkXPointlessConcept"
    ELSE IF ~ IsWeaklyConnected(g) THEN "PipelineValidationError"
    ELSE IF LocatePipelineInputNodes(g) = <<>> THEN "PipelineValidationError"
    ELSE CheckActions(g.instances)

ValidateInit ==
    /\ \E N \in SUBSET SeqRange(ValidatedNames) : graph \in ValidatedGraphs(N)
    /\ data = 0
    /\ visits = [n \in NodeNames(graph) |-> 0]
    /\ pc = "loaded"
    /\ inputs_buffer = <<>>
    /\ pipeline_results = {}
    /\ returned = NoResult
    /\ runs = 0
    /\ log = <<>>
    /\ visited = [n \in NodeNames(graph) |-> 0]
    /\ emitted = {}
    /\ omitted = {}
    /\ lastPop = [node |-> "", earliest |-> TRUE]
    /\ outcomes = <<>>
    /\ default_parameters = [n \in NodeNames(graph) |-> {}]
    /\ run_parameters = {}
    /\ parameters = {}
    /\ error = NoError
    /\ node_buffer = <<>>
    /\ arrived = <<>>
    /\ input_data = {}
    /\ nodes = <<>>
    /\ raised = ""
    /\ connects = 0
    /\ skipped = FALSE
    /\ add_node = NotCalled
    /\ warm = NotCooled
    /\ file = NoFile
    /\ pipe2 = NotLoaded
    /\ modules_to_search = <<>>
    /\ available_actions = {}
    /\ objects = <<>>

\* what validate() does not touch
validatedVars ==
    <<graph, visits, data, inputs_buffer, pipeline_results, returned, runs, log, visited,
      emitted, omitted, lastPop, outcomes, default_parameters, run_parameters, parameters,
      error, node_buffer, arrived, input_data, nodes, connects, skipped, add_node, warm,
      file, pipe2,
      modules_to_search, available_actions, objects>>

\* validate(self.graph, self.available_actions)
ValidateGraph ==
    /\ pc = "loaded"
    /\ raised' = Validate(graph)
    /\ pc' = "validated"
    /\ UNCHANGED validatedVars

ValidateNext == ValidateGraph

ValidateSpec == ValidateInit /\ [][ValidateNext]_vars

\* ------------------------------------------------------------------------
\* cool_down and warm_up of _utils.py
\* ------------------------------------------------------------------------
\* graph.nodes[name]["action"]: an instance of a class, a function, or the
\* name either is registered under; id tells one object from another, and
\* counter is the self.counter of a Count, 0 when __init__ returns
Callable(form, name, id, init_parameters) ==
    [form |-> form, name |-> name, id |-> id, init_parameters |-> init_parameters,
     counter |-> 0]

\* Count(**init_parameters), the instance number id that the caller made
Count(id, init_parameters) == Callable("instance", "Count", <<"given", id>>, init_parameters)

\* the function multiply
Multiply == Callable("function", "multiply", <<"function", 0>>, {})

\* a cool_down that writes every action under the name of multiply
ColdActionMultiply(name) == Callable("name", "multiply", <<"name", 0>>, {})

\* action.__haystack_action__
ColdAction(name) == Callable("name", name, <<"name", 0>>, {})

\* isclass(available_actions[name])
IsClass(name) == name = "Count"

\* two instances made alike, one made with another message, and a function
WarmActions == {Count(1, {}), Count(2, {<<"message", "bye">>}), Count(3, {}), Multiply}

\* the attributes of a node: its action, which of the keys "init" and
\* "instance_id" it has, and their values
Attributes(action, keys, init, instance_id) ==
    [action |-> action, keys |-> keys, init |-> init, instance_id |-> instance_id]

\* a key and an item of a parameters dictionary
Key(type, text) == [type |-> type, text |-> text]
Item(type, items) == [type |-> type, items |-> items]

\* None, {"by": 1}, {1: 2} and {"by": (1, 2)}
ParametersChoices ==
    {Value("NoneType", {}),
     Value("dict", {<<Key("str", "by"), Item("int", <<1>>)>>}),
     Value("dict", {<<Key("int", "1"), Item("int", <<2>>)>>}),
     Value("dict", {<<Key("str", "by"), Item("tuple", <<1, 2>>)>>})}

\* json.dumps(parameters): a string; every key is written as a string and
\* a tuple as a list
JsonDumps(value) ==
    Value("json", {<<Key("str", kv[1].text),
                     IF kv[2].type = "tuple" THEN Item("list", kv[2].items) ELSE kv[2]>> :
                       kv \in value.items})

\* a warm_up that leaves the parameters as it finds them
JsonLoadsNothing(text) == text

\* json.loads(parameters)
JsonLoads(text) == Value("dict", text.items)

\* the pipeline of the serialization test, three nodes long
SerializedNames == <<"counter1", "multiplier", "counter2">>

WeightedEdge(src, dst, label, weight) ==
    [src |-> src, dst |-> dst, label |-> label, weight |-> weight]

WarmGraphs ==
    {[nodes |-> SerializedNames,
      instances |-> [i \in 1..Len(SerializedNames) |-> Attributes(actions[i], {}, {}, "")],
      edges |-> <<WeightedEdge("counter1", "multiplier", "all", 1),
                  WeightedEdge("multiplier", "counter2", "all", 1)>>] :
         actions \in [1..Len(SerializedNames) -> WarmActions]}

\* a cool_down that takes every instance for a new one
SeenNever(reused_instances, action) == <<>>

\* [key for key, value in reused_instances.items() if value == action]
Seen(reused_instances, action) ==
    SelectSeq(reused_instances, LAMBDA entry : entry[2] = action)

\* for name in graph.nodes of cool_down, from the node at position
RECURSIVE CoolDownFrom(_, _, _, _)
CoolDownFrom(g, params, reused_instances, position) ==
    IF position > Len(g.nodes) THEN [graph |-> g, parameters |-> params]
    ELSE LET name == g.nodes[position]
             node == g.instances[position]
             seen == Seen(reused_instances, node.action)
             marked ==
                 IF seen # <<>>
                 THEN [node EXCEPT !.keys = @ \cup {"instance_id"}, !.instance_id = seen[1][1]]
                 ELSE IF node.action.form = "instance"
                 THEN [node EXCEPT !.keys = @ \cup {"init"},
                                   !.init = node.action.init_parameters]
                 ELSE node
             stored ==
                 IF seen = <<>> /\ node.action.form = "instance"
                 THEN Append(reused_instances, <<name, node.action>>)
                 ELSE reused_instances
         IN  CoolDownFrom(
                 [g EXCEPT !.instances[position] =
                      [marked EXCEPT !.action = ColdAction(node.action.name)]],
                 [params EXCEPT ![name] = IF Truthy(@) THEN JsonDumps(@) ELSE @],
                 stored, position + 1)

\* for name in graph.nodes of warm_up, from the node at position; any
\* exception becomes PipelineDeserializationError
RECURSIVE WarmUpFrom(_, _, _)
WarmUpFrom(g, params, position) ==
    IF position > Len(g.nodes) THEN [graph |-> g, parameters |-> params, raised |-> ""]
    ELSE LET name == g.nodes[position]
             node == g.instances[position]
             missing ==
                 /\ node.action.form = "name"
                 /\ IsClass(node.action.name)
                 /\ IF "instance_id" \in node.keys
                    THEN node.instance_id \notin NodeNames(g)
                    ELSE "init" \notin node.keys
             action ==
                 IF node.action.form # "name" THEN node.action
                 ELSE IF ~ IsClass(node.action.name)
                 THEN Callable("function", node.action.name, <<"function", 0>>, {})
                 ELSE IF "instance_id" \in node.keys
                 THEN g.instances[SeqIndex(g.nodes, node.instance_id)].action
                 ELSE Callable("instance", node.action.name, <<"warm_up", position>>, node.init)
         IN  IF missing
             THEN [graph |-> g, parameters |-> params,
                   raised |-> "PipelineDeserializationError"]
             ELSE WarmUpFrom(
                      [g EXCEPT !.instances[position] = [node EXCEPT !.action = action]],
                      [params EXCEPT ![name] = IF @.type = "json" THEN JsonLoads(@) ELSE @],
                      position + 1)

SerializeInit ==
    /\ graph \in WarmGraphs
    /\ data = 0
    /\ visits = [n \in NodeNames(graph) |-> 0]
    /\ pc = "warm"
    /\ inputs_buffer = <<>>
    /\ pipeline_results = {}
    /\ returned = NoResult
    /\ runs = 0
    /\ log = <<>>
    /\ visited = [n \in NodeNames(graph) |-> 0]
    /\ emitted = {}
    /\ omitted = {}
    /\ lastPop = [node |-> "", earliest |-> TRUE]
    /\ outcomes = <<>>
    /\ default_parameters \in [NodeNames(graph) -> ParametersChoices]
    /\ run_parameters = {}
    /\ parameters = {}
    /\ error = NoError
    /\ node_buffer = <<>>
    /\ arrived = <<>>
    /\ input_data = {}
    /\ nodes = <<>>
    /\ raised = ""
    /\ connects = 0
    /\ skipped = FALSE
    /\ add_node = NotCalled
    /\ warm = NotCooled
    /\ file = NoFile
    /\ pipe2 = NotLoaded
    /\ modules_to_search = <<>>
    /\ available_actions = {}
    /\ objects = <<>>

\* what cool_down() and warm_up() do not touch
serializedVars ==
    <<visits, data, inputs_buffer, pipeline_results, returned, runs, log, visited,
      emitted, omitted, lastPop, outcomes, run_parameters, parameters, error, node_buffer,
      arrived, input_data, nodes, connects, skipped, add_node, file, pipe2,
      modules_to_search, available_actions, objects>>

\* cool_down(graph)
CoolDown ==
    /\ pc = "warm"
    /\ warm' = [graph |-> graph, parameters |-> default_parameters]
    /\ graph' = CoolDownFrom(graph, default_parameters, <<>>, 1).graph
    /\ default_parameters' = CoolDownFrom(graph, default_parameters, <<>>, 1).parameters
    /\ pc' = "cold"
    /\ UNCHANGED raised
    /\ UNCHANGED serializedVars

\* warm_up(graph, available_actions)
WarmUp ==
    /\ pc = "cold"
    /\ graph' = WarmUpFrom(graph, default_parameters, 1).graph
    /\ default_parameters' = WarmUpFrom(graph, default_parameters, 1).parameters
    /\ raised' = WarmUpFrom(graph, default_parameters, 1).raised
    /\ pc' = "warmed"
    /\ UNCHANGED warm
    /\ UNCHANGED serializedVars

SerializeNext ==
    \/ CoolDown
    \/ WarmUp

SerializeSpec == SerializeInit /\ [][SerializeNext]_vars

\* ------------------------------------------------------------------------
\* save, load and run of haystack/pipeline/pipeline.py
\* ------------------------------------------------------------------------
\* data={"value": 2} and data={"value": 3}
SavedData == {Item("int", <<2>>), Item("int", <<3>>)}

\* parameters=None and parameters={"multiplier": {"by": 2}}
RunParametersChoices ==
    {{}, {<<"multiplier", {<<Key("str", "by"), Item("int", <<2>>)>>}>>}}

\* nx.node_link_data(graph): the nodes with their attributes, the links
\* with theirs; yaml.dump and yaml.safe_load write and read the names, the
\* JSON strings, the init dictionaries of strings and the weights of a cold
\* graph as they are
NodeLinkData(g, params) ==
    [nodes |-> [i \in 1..Len(g.nodes) |->
                   [id |-> g.nodes[i], attributes |-> g.instances[i],
                    parameters |-> params[g.nodes[i]]]],
     links |-> [i \in 1..Len(g.edges) |->
                   [source |-> g.edges[i].src, target |-> g.edges[i].dst,
                    label |-> g.edges[i].label, weight |-> g.edges[i].weight]]]

\* nx.node_link_graph(data)
NodeLinkGraph(d) ==
    [graph |->
         [nodes |-> [i \in 1..Len(d.nodes) |-> d.nodes[i].id],
          instances |-> [i \in 1..Len(d.nodes) |-> d.nodes[i].attributes],
          edges |-> [i \in 1..Len(d.links) |->
                        WeightedEdge(d.links[i].source, d.links[i].target,
                                     d.links[i].label, d.links[i].weight)]],
     parameters |->
         [n \in {d.nodes[i].id : i \in 1..Len(d.nodes)} |->
              d.nodes[SeqIndex([i \in 1..Len(d.nodes) |-> d.nodes[i].id], n)].parameters]]

\* is_cold(graph) and is_warm(graph)
IsCold(g) == \A i \in 1..Len(g.nodes) : g.instances[i].action.form = "name"
IsWarm(g) == \A i \in 1..Len(g.nodes) : g.instances[i].action.form # "name"

\* Count.validate(init_parameters)
CountAccepts(init) == \A kv \in init : kv[1] = "message" => kv[2] \in {"hello", "bye"}

\* what validate() raises on the graph read from the file; every action of
\* the test is among available_actions
ValidateLoaded(g) ==
    IF g.nodes = <<>> THEN "NetworkXPointlessConcept"
    ELSE IF ~ IsWeaklyConnected(g) THEN "PipelineValidationError"
    ELSE CheckActions([i \in 1..Len(g.nodes) |->
             Action(g.instances[i].action.form, TRUE,
                    \/ ~ IsClass(g.instances[i].action.name)
                    \/ "init" \notin g.instances[i].keys
                    \/ CountAccepts(g.instances[i].init))])

\* {**first, **second} of two dictionaries given by their items
Updated(first, second) ==
    {kv \in first : \A other \in second : other[1] # kv[1]} \cup second

\* parameters.get(name, {})
ParametersOf(input_params, name) ==
    IF \E entry \in input_params : entry[1] = name
    THEN (CHOOSE entry \in input_params : entry[1] = name)[2]
    ELSE {}

\* sequence * n
RECURSIVE Repeated(_, _)
Repeated(items, n) == IF n <= 0 THEN <<>> ELSE items \o Repeated(items, n - 1)

\* value * by of Python: the product of two integers, a list or a tuple
\* repeated, TypeError for two sequences
Times(value, by) ==
    IF value.type = "int" /\ by.type = "int"
    THEN [raised |-> "", value |-> Item("int", <<value.items[1] * by.items[1]>>)]
    ELSE IF value.type = "int"
    THEN [raised |-> "", value |-> Item(by.type, Repeated(by.items, value.items[1]))]
    ELSE IF by.type = "int"
    THEN [raised |-> "", value |-> Item(value.type, Repeated(value.items, by.items[1]))]
    ELSE [raised |-> "TypeError", value |-> value]

\* the call of a node through the wrapper of haystack_simple_action: the
\* parameters of the node are all passed as keyword arguments. multiply
\* takes value and by=4; a Count takes nothing, counts the call and returns
\* the data it was given
CallNode(action, name, value, input_params) ==
    LET kwargs == ParametersOf(input_params, name)
        by == IF kwargs = {} THEN Item("int", <<4>>)
              ELSE (CHOOSE kv \in kwargs : TRUE)[2]
    IN  IF action.form = "instance"
        THEN [raised |-> IF kwargs = {} THEN "" ELSE "TypeError", value |-> value]
        ELSE IF \E kv \in kwargs : kv[1] # Key("str", "by")
        THEN [raised |-> "TypeError", value |-> value]
        ELSE Times(value, by)

\* self.counter += 1 on the instance: every node that holds it sees it
Counted(g, action) ==
    [g EXCEPT !.instances =
        [i \in 1..Len(g.nodes) |->
            IF action.form = "instance" /\ g.instances[i].action.id = action.id
            THEN [g.instances[i] EXCEPT !.action.counter = @ + 1]
            ELSE g.instances[i]]]

\* the execution loop of run, from the nodes of node_names on; a node of
\* these pipelines has one input at most, which merge() leaves as it is
RECURSIVE RunLoop(_, _, _, _, _)
RunLoop(g, params, node_names, buffer, output_data) ==
    IF node_names = <<>>
    THEN [graph |-> g, raised |-> "",
          returned |-> IF Len(output_data) = 1 THEN output_data[1][2] ELSE output_data]
    ELSE LET node_name == Head(node_names)
             input == buffer[node_name][1]
             outgoing == SelectSeq(g.edges, LAMBDA e : e.src = node_name)
             node_action == g.instances[SeqIndex(g.nodes, node_name)].action
             default_params == params[node_name]
             input_params ==
                 IF Truthy(default_params)
                 THEN {entry \in input.parameters : entry[1] # node_name}
                      \cup {<<node_name,
                              Updated(default_params.items,
                                      ParametersOf(input.parameters, node_name))>>}
                 ELSE input.parameters
             called == CallNode(node_action, node_name, input.data, input_params)
             passed == [data |-> called.value, parameters |-> input_params]
         IN  IF Truthy(default_params) /\ default_params.type # "dict"
             THEN [graph |-> g, raised |-> "TypeError", returned |-> <<>>]
             ELSE IF called.raised # ""
             THEN [graph |-> g, raised |-> "PipelineError", returned |-> <<>>]
             ELSE RunLoop(
                      Counted(g, node_action), params,
                      Tail(node_names) \o [i \in 1..Len(outgoing) |-> outgoing[i].dst],
                      [n \in DOMAIN buffer |->
                          IF \E i \in 1..Len(outgoing) : outgoing[i].dst = n
                          THEN Append(buffer[n], passed) ELSE buffer[n]],
                      IF outgoing = <<>>
                      THEN Append(output_data, <<node_name, called.value>>)
                      ELSE output_data)

\* Pipeline.run(data, parameters): warms the graph up if it is not warm,
\* gives the data to the nodes without input and runs the loop
Run(g, params, value, given) ==
    LET warmed == IF IsWarm(g) THEN [graph |-> g, parameters |-> params, raised |-> ""]
                  ELSE WarmUpFrom(g, params, 1)
        first == SelectSeq(warmed.graph.nodes,
                     LAMBDA n : ~ \E i \in 1..Len(g.edges) : g.edges[i].dst = n)
        ran == RunLoop(warmed.graph, warmed.parameters, first,
                   [n \in NodeNames(g) |->
                       IF \E i \in 1..Len(first) : first[i] = n
                       THEN <<[data |-> value, parameters |-> given]>> ELSE <<>>],
                   <<>>)
    IN  IF warmed.raised # ""
        THEN [graph |-> g, parameters |-> params, raised |-> warmed.raised,
              returned |-> <<>>]
        ELSE [graph |-> ran.graph, parameters |-> warmed.parameters,
              raised |-> ran.raised, returned |-> ran.returned]

\* how a run ended: what it raised and what it returned
HowEnded(run) == [raised |-> run.raised, returned |-> run.returned]

SaveLoadInit ==
    /\ graph \in WarmGraphs
    /\ data \in SavedData
    /\ visits = [n \in NodeNames(graph) |-> 0]
    /\ pc = "built"
    /\ inputs_buffer = <<>>
    /\ pipeline_results = {}
    /\ returned = NoResult
    /\ runs = 0
    /\ log = <<>>
    /\ visited = [n \in NodeNames(graph) |-> 0]
    /\ emitted = {}
    /\ omitted = {}
    /\ lastPop = [node |-> "", earliest |-> TRUE]
    /\ outcomes = <<>>
    /\ default_parameters \in [NodeNames(graph) -> ParametersChoices]
    /\ run_parameters \in RunParametersChoices
    /\ parameters = {}
    /\ error = NoError
    /\ node_buffer = <<>>
    /\ arrived = <<>>
    /\ input_data = {}
    /\ nodes = <<>>
    /\ raised = ""
    /\ connects = 0
    /\ skipped = FALSE
    /\ add_node = NotCalled
    /\ warm = NotCooled
    /\ file = NoFile
    /\ pipe2 = NotLoaded
    /\ modules_to_search = <<>>
    /\ available_actions = {}
    /\ objects = <<>>

\* what save, load and run do not touch
savedVars ==
    <<visits, data, inputs_buffer, pipeline_results, runs, log, visited, emitted,
      omitted, lastPop, run_parameters, parameters, error, node_buffer, arrived,
      input_data, nodes, connects, skipped, add_node,
      modules_to_search, available_actions, objects>>

\* a save that cools down the graph of the pipeline itself
AfterCoolDownInPlace(own, cooled) == cooled

\* _graph = deepcopy(self.graph); cool_down(_graph): what self.graph and its
\* parameters are afterwards, own before the call and cooled in the copy
AfterCoolDownOfCopy(own, cooled) == own

\* pipe.run(data, parameters) of the pipeline that was built
RunOriginal ==
    /\ pc = "built"
    /\ \E ran \in {Run(graph, default_parameters, data, run_parameters)} :
           /\ graph' = ran.graph
           /\ default_parameters' = ran.parameters
           /\ outcomes' = <<HowEnded(ran)>>
    /\ pc' = "ran"
    /\ UNCHANGED <<returned, raised, file, pipe2, warm>>
    /\ UNCHANGED savedVars

\* pipe.save(path): cools a deep copy of the graph down and dumps it
Save ==
    /\ pc = "ran"
    /\ \E cooled \in {IF IsCold(graph)
                      THEN [graph |-> graph, parameters |-> default_parameters]
                      ELSE CoolDownFrom(graph, default_parameters, <<>>, 1)} :
           /\ file' = NodeLinkData(cooled.graph, cooled.parameters)
           /\ \E own \in {AfterCoolDownOfCopy(
                              [graph |-> graph, parameters |-> default_parameters], cooled)} :
                  /\ graph' = own.graph
                  /\ default_parameters' = own.parameters
    /\ warm' = [graph |-> graph, parameters |-> default_parameters]
    /\ pc' = "saved"
    /\ UNCHANGED <<outcomes, returned, raised, pipe2>>
    /\ UNCHANGED savedVars

\* pipe.run(data, parameters) again, after the save
RunSaved ==
    /\ pc = "saved"
    /\ Len(outcomes) = 1
    /\ \E ran \in {Run(graph, default_parameters, data, run_parameters)} :
           /\ graph' = ran.graph
           /\ default_parameters' = ran.parameters
           /\ outcomes' = Append(outcomes, HowEnded(ran))
    /\ UNCHANGED <<pc, returned, raised, file, pipe2, warm>>
    /\ UNCHANGED savedVars

\* pipe2 = Pipeline(path): reads the graph and validates it
Load ==
    /\ pc = "saved"
    /\ pipe2' = [graph |-> NodeLinkGraph(file).graph,
                 parameters |-> NodeLinkGraph(file).parameters]
    /\ raised' = ValidateLoaded(NodeLinkGraph(file).graph)
    /\ pc' = IF raised' = "" THEN "loaded" ELSE "failed"
    /\ UNCHANGED <<graph, default_parameters, outcomes, returned, file, warm>>
    /\ UNCHANGED savedVars

\* pipe2.run(data, parameters), the same call on the loaded pipeline
RunLoaded ==
    /\ pc = "loaded"
    /\ \E ran \in {Run(pipe2.graph, pipe2.parameters, data, run_parameters)} :
           /\ pipe2' = [graph |-> ran.graph, parameters |-> ran.parameters]
           /\ returned' = HowEnded(ran)
    /\ pc' = "reran"
    /\ UNCHANGED <<graph, default_parameters, outcomes, raised, file, warm>>
    /\ UNCHANGED savedVars

SaveLoadNext ==
    \/ RunOriginal
    \/ Save
    \/ RunSaved
    \/ Load
    \/ RunLoaded

SaveLoadSpec == SaveLoadInit /\ [][SaveLoadNext]_vars

\* ------------------------------------------------------------------------
\* find_actions of new_haystack/pipeline/_utils.py
\* ------------------------------------------------------------------------
\* how many modules a search is given at most
MaxModules == 5

\* entity.__haystack_action__ of the actions a module may define
ActionNames == <<"retriever", "reader">>

\* an action: its name and entity.__module__, the module that defines it;
\* modules are told apart by their number
Entity(name, module) == [name |-> name, module |-> module]

\* the key of an entry of the dictionary: f"{module}.{name}", or the name
\* alone, written as module 0
Qualified(module, name) == <<module, name>>
Unqualified(name) == <<0, name>>

\* getmembers(sys.modules[search_module], ...) of module number i that
\* defines the actions of names: its actions, sorted by name
Members(i, names) ==
    [k \in 1..Len(SelectSeq(ActionNames, LAMBDA n : n \in names)) |->
        Entity(SelectSeq(ActionNames, LAMBDA n : n \in names)[k], i)]

\* duplicate_names = [], at the start of the search of every module
DuplicatesAtModule(duplicate_names) == <<>>

\* the loop over the members of one module, from the member at position
RECURSIVE SearchModule(_, _, _, _, _)
SearchModule(actions, duplicate_names, search_module, members, position) ==
    IF position > Len(members)
    THEN [actions |-> actions, duplicate_names |-> duplicate_names]
    ELSE LET entity == members[position]
             collides == Unqualified(entity.name) \in Keys(actions)
             other_entity == Get(actions, Unqualified(entity.name))
             both ==
                 IF collides
                 THEN SetItem(SetItem(actions,
                                      Qualified(other_entity.module, entity.name),
                                      other_entity),
                              Qualified(search_module, entity.name), entity)
                 ELSE actions
         IN  SearchModule(SetItem(both, Unqualified(entity.name), entity),
                          IF collides THEN Append(duplicate_names, entity.name)
                          ELSE duplicate_names,
                          search_module, members, position + 1)

\* for search_module in modules_to_search, from the module at position
RECURSIVE SearchFrom(_, _, _, _)
SearchFrom(actions, duplicate_names, modules, position) ==
    IF position > Len(modules)
    THEN [actions |-> actions, duplicate_names |-> duplicate_names]
    ELSE LET searched == SearchModule(actions, DuplicatesAtModule(duplicate_names),
                                      position, modules[position], 1)
         IN  SearchFrom(searched.actions, searched.duplicate_names, modules, position + 1)

\* for duplicate in duplicate_names: del actions[duplicate]
RECURSIVE DeleteFrom(_, _)
DeleteFrom(actions, duplicate_names) ==
    IF duplicate_names = <<>> THEN [actions |-> actions, raised |-> ""]
    ELSE IF Unqualified(Head(duplicate_names)) \notin Keys(actions)
    THEN [actions |-> actions, raised |-> "KeyError"]
    ELSE DeleteFrom({pair \in actions : pair[1] # Unqualified(Head(duplicate_names))},
                    Tail(duplicate_names))

\* find_actions(modules_to_search); duplicate_names is bound in the body of
\* the loop over the modules only, so that with no module to search the
\* loop over duplicate_names raises UnboundLocalError
FindActionsIn(modules) ==
    IF modules = <<>> THEN [actions |-> {}, raised |-> "UnboundLocalError"]
    ELSE DeleteFrom(SearchFrom({}, <<>>, modules, 1).actions,
                    SearchFrom({}, <<>>, modules, 1).duplicate_names)

FindInit ==
    /\ graph = EmptyPipeline
    /\ data = 0
    /\ visits = <<>>
    /\ pc = "searching"
    /\ inputs_buffer = <<>>
    /\ pipeline_results = {}
    /\ returned = NoResult
    /\ runs = 0
    /\ log = <<>>
    /\ visited = <<>>
    /\ emitted = {}
    /\ omitted = {}
    /\ lastPop = [node |-> "", earliest |-> TRUE]
    /\ outcomes = <<>>
    /\ default_parameters = <<>>
    /\ run_parameters = {}
    /\ parameters = {}
    /\ error = NoError
    /\ node_buffer = <<>>
    /\ arrived = <<>>
    /\ input_data = {}
    /\ nodes = <<>>
    /\ raised = ""
    /\ connects = 0
    /\ skipped = FALSE
    /\ add_node = NotCalled
    /\ warm = NotCooled
    /\ file = NoFile
    /\ pipe2 = NotLoaded
    /\ \E count \in 0..MaxModules :
           \E names \in [1..count -> SUBSET SeqRange(ActionNames)] :
               modules_to_search = [i \in 1..count |-> Members(i, names[i])]
    /\ available_actions = {}
    /\ objects = <<>>

\* what find_actions() does not touch
foundVars ==
    <<graph, visits, data, inputs_buffer, pipeline_results, returned, runs, log, visited,
      emitted, omitted, lastPop, outcomes, default_parameters, run_parameters, parameters,
      error, node_buffer, arrived, input_data, nodes, connects, skipped, add_node, warm,
      file, pipe2, modules_to_search, objects>>

\* self.available_actions = find_actions(search_modules)
FindActions ==
    /\ pc = "searching"
    /\ available_actions' = FindActionsIn(modules_to_search).actions
    /\ raised' = FindActionsIn(modules_to_search).raised
    /\ pc' = "searched"
    /\ UNCHANGED foundVars

FindNext == FindActions

FindSpec == FindInit /\ [][FindNext]_vars

\* ------------------------------------------------------------------------
\* Pipeline.run of new_haystack with nodes that return parameters: every
\* buffer entry refers to a parameters dictionary, objects[entry.parameters]
\* ------------------------------------------------------------------------
\* how many nodes of a graph return parameters
MaxReturning == 2

\* a graph whose nodes return their output alone ("dict"), or a tuple of
\* their output and the parameters they were given, changed in place
\* ("same"), or a tuple of their output and a new dictionary ("new")
Returning(g, returns) ==
    [g EXCEPT !.instances =
        [i \in 1..Len(g.nodes) |->
            [class |-> g.instances[i].class, arg |-> g.instances[i].arg,
             returns |-> returns[g.nodes[i]]]]]

\* parameters[name]["mark"] = 1, in a dictionary of dictionaries
Marked(params, name) == SetItem(params, name, SetItem(Get(params, name), "mark", 1))

\* node_inputs["parameters"][name] = {**defaults, **parameters.get(name, {})}:
\* written into the dictionary of the entry, read from the one of run()
DefaultsInto(objs, ref, defaults, name) ==
    IF defaults[name] # {}
    THEN [objs EXCEPT ![ref] = SetItem(@, name, Update(defaults[name], Get(objs[1], name)))]
    ELSE objs

\* node_results after its standardisation: the dictionaries there are and
\* the one node_results[1] is
NodeResultsParameters(node, name, objs, ref) ==
    CASE node.returns = "dict" -> [objects |-> objs, parameters |-> ref]
      [] node.returns = "same" ->
             [objects |-> [objs EXCEPT ![ref] = Marked(@, name)], parameters |-> ref]
      [] node.returns = "new" ->
             [objects |-> Append(objs, Marked(objs[ref], name)), parameters |-> Len(objs) + 1]

\* inputs_buffer[name]["parameters"] = the dictionary, for the names given
Refer(buffer, names, ref) ==
    [i \in 1..Len(buffer) |->
        [node |-> buffer[i].node, data |-> buffer[i].data, stamp |-> buffer[i].stamp,
         parameters |-> IF buffer[i].node \in names THEN ref ELSE buffer[i].parameters]]

\* the targets of the edges that are not left out
Targets(g, name, out) == {e.dst : e \in SeqRange(OutEdges(g, name)) \ LeftOut(g, name, out)}

\* a new pipeline whose nodes, two at most, return parameters
ParametersInit ==
    /\ \E g \in Graphs :
           \E changing \in SUBSET NodeNames(g) :
               /\ Cardinality(changing) <= MaxReturning
               /\ \E returns \in [changing -> {"same", "new"}] :
                      graph = Returning(g, [n \in NodeNames(g) |->
                                  IF n \in changing THEN returns[n] ELSE "dict"])
    /\ data \in 0..MaxValue
    /\ visits = [n \in NodeNames(graph) |-> 0]
    /\ pc = "idle"
    /\ inputs_buffer = <<>>
    /\ pipeline_results = {}
    /\ returned = NoResult
    /\ runs = 0
    /\ log = <<>>
    /\ visited = [n \in NodeNames(graph) |-> 0]
    /\ emitted = {}
    /\ omitted = {}
    /\ lastPop = [node |-> "", earliest |-> TRUE]
    /\ outcomes = <<>>
    /\ default_parameters \in DefaultParameterChoices(graph)
    /\ run_parameters \in RunParameterChoices(graph)
    /\ parameters = {}
    /\ error = NoError
    /\ node_buffer = <<>>
    /\ arrived = <<>>
    /\ input_data = {}
    /\ nodes = <<>>
    /\ raised = ""
    /\ connects = 0
    /\ skipped = FALSE
    /\ add_node = NotCalled
    /\ warm = NotCooled
    /\ file = NoFile
    /\ pipe2 = NotLoaded
    /\ modules_to_search = <<>>
    /\ available_actions = {}
    /\ objects = <<>>

\* what run() does not touch, objects aside
callVars ==
    <<node_buffer, arrived, input_data, nodes, raised, connects, skipped, add_node, warm,
      file, pipe2, modules_to_search, available_actions>>

\* run() is called: inputs_buffer[node_name] = {"data": data, "parameters": parameters}
StartRunReferring ==
    /\ pc = "idle"
    /\ pc' = "running"
    /\ runs' = runs + 1
    /\ objects' = <<run_parameters>>
    /\ parameters' = objects'[1]
    /\ inputs_buffer' = Refer(SeedInputs(<<>>, LocatePipelineInputNodes(graph), data),
                              SeqRange(LocatePipelineInputNodes(graph)), 1)
    /\ pipeline_results' = {}
    /\ returned' = NoResult
    /\ log' = <<>>
    /\ visited' = [n \in NodeNames(graph) |-> 0]
    /\ emitted' = {}
    /\ omitted' = {}
    /\ lastPop' = [node |-> "", earliest |-> TRUE]
    /\ error' = NoError
    /\ UNCHANGED <<graph, visits, data, outcomes, default_parameters, run_parameters>>
    /\ UNCHANGED callVars

\* inputs_buffer[node_name] = node_inputs: the entry goes back as it is
PutBackReferring ==
    /\ Pop("put_back")
    /\ inputs_buffer' = Renumber(Refer(Insert(Popped.rest, Popped.item.node, Popped.item.data),
                                       {Popped.item.node}, Popped.item.parameters))
    /\ UNCHANGED <<graph, visits, data, pc, pipeline_results, returned, runs, log, visited,
                   emitted, omitted, outcomes, default_parameters, run_parameters,
                   parameters, error, objects>>
    /\ UNCHANGED callVars

\* inputs_buffer[downstream_node] = {"data": [], "parameters": parameters}
SkipNodeReferring ==
    LET name == Popped.item.node
        seeded == {e.dst : e \in SeqRange(OutEdges(graph, name))}
                      \ {Popped.rest[i].node : i \in 1..Len(Popped.rest)}
    IN /\ Pop("skip")
       /\ visits' = [visits EXCEPT ![name] = @ + 1]
       /\ inputs_buffer' = Renumber(Refer(SeedDownstream(Popped.rest, OutEdges(graph, name)),
                                          seeded, 1))
       /\ visited' = [visited EXCEPT ![name] = @ + 1]
       /\ UNCHANGED <<graph, data, pc, pipeline_results, returned, runs, log, emitted,
                      omitted, outcomes, default_parameters, run_parameters, parameters,
                      error, objects>>
       /\ UNCHANGED callVars

\* the node is called with the dictionary of its entry and returns; every
\* target that is not left out gets node_results[1] as its parameters
RunNodeReferring ==
    LET name == Popped.item.node
        node_inputs == Turn(graph, visits, Popped.item).data
        merged == DefaultsInto(objects, Popped.item.parameters, default_parameters, name)
        node_results == NodeRun(Instance(graph, name), node_inputs)
        results_parameters ==
            NodeResultsParameters(Instance(graph, name), name, merged, Popped.item.parameters)
        edges == OutEdges(graph, name)
    IN /\ Pop("run")
       /\ node_results.ok
       /\ visits' = [visits EXCEPT ![name] = @ + 1]
       /\ objects' = results_parameters.objects
       /\ parameters' = objects'[1]
       /\ log' = Append(log, Call(name, Turn(graph, visits, Popped.item),
                                  merged[Popped.item.parameters]))
       /\ visited' = [visited EXCEPT ![name] = @ + 1]
       /\ emitted' = emitted \cup {e \in SeqRange(edges) : e.label \in OutLabels(node_results.out)}
       /\ omitted' = omitted \cup {e \in SeqRange(edges) : e.label \notin OutLabels(node_results.out)}
       /\ IF edges = <<>>
          THEN /\ pipeline_results' = AppendResult(pipeline_results, name, node_results.out)
               /\ inputs_buffer' = Renumber(Popped.rest)
          ELSE /\ pipeline_results' = pipeline_results
               /\ inputs_buffer' =
                      Renumber(Refer(Route(Popped.rest, graph, name, node_results.out, edges),
                                     Targets(graph, name, node_results.out),
                                     results_parameters.parameters))
       /\ UNCHANGED <<graph, data, pc, returned, runs, outcomes, default_parameters,
                      run_parameters, error>>
       /\ UNCHANGED callVars

\* the node is called with the dictionary of its entry and raises
NodeRaisesReferring ==
    LET name == Popped.item.node
        node_inputs == Turn(graph, visits, Popped.item).data
        merged == DefaultsInto(objects, Popped.item.parameters, default_parameters, name)
    IN /\ Pop("run")
       /\ ~ NodeRun(Instance(graph, name), node_inputs).ok
       /\ visits' = [visits EXCEPT ![name] = @ + 1]
       /\ objects' = merged
       /\ parameters' = objects'[1]
       /\ log' = Append(log, Call(name, Turn(graph, visits, Popped.item),
                                  merged[Popped.item.parameters]))
       /\ visited' = [visited EXCEPT ![name] = @ + 1]
       /\ Abort("runtime_error", log')
       /\ error' = PipelineRuntimeError(name, node_inputs, merged[Popped.item.parameters],
                                        NodeException(Instance(graph, name), node_inputs))
       /\ UNCHANGED <<graph, data, runs, emitted, omitted, default_parameters, run_parameters>>
       /\ UNCHANGED callVars

ParametersNext ==
    \/ StartRunReferring
    \/ RaiseMaxLoops
    \/ RaiseUnpack
    \/ PutBackReferring
    \/ SkipNodeReferring
    \/ RunNodeReferring
    \/ NodeRaisesReferring
    \/ Return

ParametersSpec == ParametersInit /\ [][ParametersNext]_vars

\* ------------------------------------------------------------------------
\* Properties
\* ------------------------------------------------------------------------
\* how often a node was called in this run
Calls(name) == SeqCount([i \in 1..Len(log) |-> log[i].node], name)

Called == {log[i].node : i \in 1..Len(log)}

Ended == pc \in {"returned", "max_loops", "value_error", "runtime_error"}

\* the step calls a node
IsCall == Len(log') = Len(log) + 1

\* the in-edges of a node whose source is not reachable from the node
OutsideEdges(g, name) == {e \in SeqRange(InEdges(g, name)) : ~ HasPath(g, name, e.src)}

\* C1: a node with several incoming edges is called only when every
\* incoming edge whose source is not reachable from the node has delivered
\* its contribution in this run, or when all the sources of those edges
\* were called or skipped in this run.
C1_MergeNodeWaits ==
    [][(IsCall /\ Len(InEdges(graph, Popped.item.node)) > 1)
        => \/ \A e \in OutsideEdges(graph, Popped.item.node) : e \in emitted
           \/ \A e \in OutsideEdges(graph, Popped.item.node) : visited[e.src] > 0]_vars

\* an iteration that puts its entry back changes nothing but the order of
\* the buffer: when every entry would be put back, the loop never ends
Stuck ==
    /\ pc = "running"
    /\ inputs_buffer # <<>>
    /\ \A i \in 1..Len(inputs_buffer) : Turn(graph, visits, inputs_buffer[i]).do = "put_back"

\* C2: every call of run() ends, by returning or by raising: the loop never
\* reaches a buffer in which every node is put back forever.
C2_RunTerminates == ~ Stuck

\* C3: no node is called more than max_loops_allowed times in a run, and
\* PipelineMaxLoops is raised only for a node that this run has already
\* visited max_loops_allowed times.
C3_LoopBound ==
    /\ \A n \in NodeNames(graph) : Calls(n) <= MaxLoopsAllowed
    /\ pc = "max_loops" => visited[lastPop.node] = MaxLoopsAllowed

\* C4: a node that runs although some of the edges it waits for delivered
\* nothing is handed one entry, a value or None, for each of those edges.
C4_MissingEdgesAreNone ==
    \A i \in 1..Len(log) :
        log[i].how = "partial"
        => \A e \in SeqRange(EdgesToWaitFor(graph, log[i].node)) :
               SeqCount(Labels(log[i].data), e.label)
                   >= SeqCount(Labels(EdgesToWaitFor(graph, log[i].node)), e.label)

\* the graph without one of its edges
WithoutEdge(g, e) == [g EXCEPT !.edges = SelectSeq(@, LAMBDA x : x # e)]

\* the nodes every path from an entry point reaches through edge e only
OnlyThrough(g, e) ==
    Descendants(g, SeqRange(LocatePipelineInputNodes(g)))
        \ Descendants(WithoutEdge(g, e), SeqRange(LocatePipelineInputNodes(g)))

\* C5 as stated: once a call has left an edge out of its result, no node
\* reachable only through that edge is called in the run.
C5_OmittedOnceNeverRuns ==
    \A e \in omitted : OnlyThrough(graph, e) \cap Called = {}

\* C5: as long as no call of the run has put a contribution on an edge, no
\* node reachable only through that edge is called in the run.
C5_PrunedBranchNeverRuns ==
    \A e \in SeqRange(graph.edges) \ emitted : OnlyThrough(graph, e) \cap Called = {}

\* a run returned in which an edge that leads to nodes of its own was left
\* out by every call of its source
C5_Witness ==
    /\ pc = "returned"
    /\ \E e \in omitted \ emitted : OnlyThrough(graph, e) # {}

\* C6: every run of a pipeline ends like its first run: same status, same
\* calls in the same order, same result.
C6_RunsAreIndependent ==
    \A i \in 1..Len(outcomes) : outcomes[i] = outcomes[1]

\* C7: every iteration pops the entry that was inserted earliest among the
\* entries of the buffer, so nodes are called in the order of insertion of
\* their entries.
C7_PopsEarliest == lastPop.earliest

\* two entries were waiting and the earlier one was called
C7_Witness ==
    /\ pc = "running"
    /\ Len(log) >= 2
    /\ Len(inputs_buffer) >= 2
    /\ lastPop.node = log[Len(log)].node

\* C8: any two runs of a pipeline on the same input call the same nodes in
\* the same order with the same inputs and return the same result.
C8_RunsAreDeterministic ==
    \A i, j \in 1..Len(outcomes) :
        /\ outcomes[i].log = outcomes[j].log
        /\ outcomes[i].returned = outcomes[j].returned

\* how often the loop of the looping pipeline is taken for the input
Iterations == IF data < Threshold THEN Threshold - data ELSE 0

\* C9: a run of the looping pipeline whose loop fits in the bound calls
\* each node of the loop body once per iteration, calls the exit node once,
\* last, and returns its output.
C9_LoopingResult ==
    (graph = LoopingPipeline /\ Ended /\ Iterations + 1 <= MaxLoopsAllowed)
    => /\ pc = "returned"
       /\ Calls("add_one") = Iterations
       /\ Calls("counter") = Iterations
       /\ Calls("add_two") = 1
       /\ log[Len(log)].node = "add_two"
       /\ returned = [shape |-> "payload",
                      results |-> {<<"add_two", <<{<<"value", data + Iterations + 2>>}>>>>}]

Acyclic(g) == \A e \in SeqRange(g.edges) : ~ HasPath(g, e.dst, e.src)

\* C10: a run of an acyclic graph in which no call leaves an edge out calls
\* every node exactly once.
C10_EveryNodeOnce ==
    (Acyclic(graph) /\ omitted = {} /\ pc = "returned")
    => \A n \in NodeNames(graph) : Calls(n) = 1
\* run() has seeded the buffer and popped nothing yet
AtStart == pc = "running" /\ lastPop.node = ""

LastCall == log[Len(log)]

\* the call raised
CallRaised(call) == ~ NodeRun(Instance(graph, call.node), call.data).ok

C13_FailureAbortsRun ==
    /\ [](pc = "runtime_error" => (returned = NoResult /\ inputs_buffer = <<>>))
    /\ [][pc = "runtime_error" => (runs' = runs + 1 /\ log' = <<>>)]_vars

\* a call raised after a terminal node had produced its output
C13_Witness ==
    /\ pc = "runtime_error"
    /\ \E i \in 1..(Len(log) - 1) : OutEdges(graph, log[i].node) = <<>>

Carrying(key) == {i \in 1..Len(arrived) : key \in Keys(arrived[i].data)}

\* C15: when the contributions that carry a key all carry a scalar for it
\* and one of them has the highest weight, the merged input holds the value
\* of that one.
C15_HigherWeightWins ==
    pc = "merged"
    => \A key \in {"x"} : \A i \in Carrying(key) :
           (/\ \A j \in Carrying(key) : Get(arrived[j].data, key).kind = "scalar"
            /\ \A j \in Carrying(key) \ {i} : arrived[j].weight < arrived[i].weight)
           => Get(input_data, key) = Get(arrived[i].data, key)

\* the contributions in another order of arrival
Rearranged(f) == [i \in 1..Len(arrived) |-> arrived[f[i]]]

\* C16: the merged input is the same for every order in which the same
\* contributions could have arrived, equal weights included.
C16_ArrivalOrderIrrelevant ==
    pc = "merged"
    => \A f \in Permutations(1..Len(arrived)) :
           MergeAll(SortByWeight(Rearranged(f)), {}) = input_data

\* the terminal nodes that were called in this run
Producers == {n \in Called : OutEdges(graph, n) = <<>>}

\* what a call returned
PayloadOf(call) == NodeRun(Instance(graph, call.node), call.data).out

\* C17: run returns a bare payload exactly when one terminal node was
\* called, once; the payload is what that call returned.
C17_BarePayloadIffSingle ==
    pc = "returned"
    => /\ returned.shape = "payload"
              <=> (Cardinality(Producers) = 1 /\ \A n \in Producers : Calls(n) = 1)
       /\ returned.shape = "payload"
              => \E i \in 1..Len(log) :
                     returned.results = {<<log[i].node, <<PayloadOf(log[i])>>>>}

\* a run returned a bare payload
C17_Witness ==
    /\ pc = "returned"
    /\ runs = 1
    /\ returned.shape = "payload"

\* a value of the returned mapping, as a Python value: a list or a dictionary
ListValue(l) == [type |-> "list", elements |-> l, items |-> {}]
DictValue(d) == [type |-> "dict", elements |-> <<>>, items |-> d]

\* C18: when two or more terminal nodes were called once each, run returns
\* a mapping whose keys are those nodes and whose value under each key is
\* the payload the node returned.
C18_MappingOfPayloads ==
    (/\ pc = "returned"
     /\ Cardinality(Producers) >= 2
     /\ \A n \in Producers : Calls(n) = 1)
    => /\ returned.shape = "dict"
       /\ {r[1] : r \in returned.results} = Producers
       /\ \A r \in returned.results : \A i \in 1..Len(log) :
              log[i].node = r[1] => ListValue(r[2]) = DictValue(PayloadOf(log[i]))

\* the payloads the results hold under a name
Payloads(results, name) ==
    IF \E r \in results : r[1] = name
    THEN (CHOOSE r \in results : r[1] = name)[2]
    ELSE <<>>

\* C19: while a run goes on, a call of a node without outgoing edges puts
\* the payload it returned at the end of the payloads under its name and
\* leaves the payloads under the other names as they are; no other step
\* changes the results.
C19_TerminalCallAppends ==
    [][(pc = "running" /\ pc' = "running")
        => IF IsCall /\ OutEdges(graph, Popped.item.node) = <<>>
           THEN /\ Payloads(pipeline_results', Popped.item.node)
                       = Append(Payloads(pipeline_results, Popped.item.node),
                                PayloadOf(log'[Len(log')]))
                /\ \A n \in NodeNames(graph) \ {Popped.item.node} :
                       Payloads(pipeline_results', n) = Payloads(pipeline_results, n)
           ELSE pipeline_results' = pipeline_results]_vars

\* a terminal node was called twice in one run
C19_Witness ==
    /\ runs = 1
    /\ \E r \in pipeline_results : Len(r[2]) >= 2

\* how often a label is on the edges going into / out of a node
InCount(g, name, label) == SeqCount(Labels(InEdges(g, name)), label)
OutCount(g, name, label) == SeqCount(Labels(OutEdges(g, name)), label)

\* every edge takes a declared output of its source and a declared input of
\* its target, and a slot declared k times is taken by at most k edges
SlotsRespected(g) ==
    /\ \A e \in SeqRange(g.edges) : e.src \in NodeNames(g) /\ e.dst \in NodeNames(g)
    /\ \A n \in NodeNames(g) : \A e \in SeqRange(g.edges) :
           /\ InCount(g, n, e.label) <= SeqCount(Instance(g, n).inputs, e.label)
           /\ OutCount(g, n, e.label) <= SeqCount(Instance(g, n).outputs, e.label)

\* the graph with one more edge, an edge being its two ends and its label
WithEdge(g, e) ==
    IF e \in SeqRange(g.edges) THEN g ELSE [g EXCEPT !.edges = Append(@, e)]

\* the edge a one-pair call asks for, when both names are in the graph and
\* the reference tells which output is meant
AskedEdge(g, refs) ==
    Edge(refs[1][1], refs[2][1],
         IF Len(refs[1]) > 1 THEN refs[1][2] ELSE Instance(g, refs[1][1]).outputs[1])

Unambiguous(g, refs) ==
    /\ Len(refs) = 2
    /\ refs[1][1] \in NodeNames(g)
    /\ refs[2][1] \in NodeNames(g)
    /\ Len(refs[1]) > 1 \/ Len(Instance(g, refs[1][1]).outputs) = 1

\* C20: after every sequence of connect calls each edge takes one declared
\* output slot of its source and one declared input slot of its target, and
\* no slot is taken twice; a connect of one pair of nodes of the graph
\* whose edge would break this raises PipelineConnectError and adds nothing.
C20_SlotsRespected ==
    /\ [](pc = "building" => SlotsRespected(graph))
    /\ [][(pc = "building" /\ Unambiguous(graph, nodes')
              /\ ~ SlotsRespected(WithEdge(graph, AskedEdge(graph, nodes'))))
          => (raised' = "PipelineConnectError" /\ graph' = graph)]_vars

\* a connect was refused because the slot it asked for, a declared one,
\* was taken by an earlier connect
C20_Witness ==
    /\ pc = "building"
    /\ raised = "PipelineConnectError"
    /\ Unambiguous(graph, nodes)
    /\ AskedEdge(graph, nodes).label \in SeqRange(Instance(graph, nodes[2][1]).inputs)
    /\ AskedEdge(graph, nodes).label \in SeqRange(Instance(graph, nodes[1][1]).outputs)
    /\ graph.edges # <<>>

\* every name of the call is in the graph and every upstream reference
\* tells which output is meant
Resolvable(g, refs) ==
    /\ \A i \in 1..Len(refs) : refs[i][1] \in NodeNames(g)
    /\ \A i \in 1..(Len(refs) - 1) : ~ Ambiguous(refs[i], Instance(g, refs[i][1]))

\* the edge the call asks for between its references i and i + 1
AskedAt(g, refs, i) ==
    Edge(refs[i][1], refs[i + 1][1],
         IF Len(refs[i]) > 1 THEN refs[i][2] ELSE Instance(g, refs[i][1]).outputs[1])

\* the edges a call asks for
AskedEdges(g, refs) == {AskedAt(g, refs, i) : i \in 1..(Len(refs) - 1)}

\* C21: a connect whose edges (same ends, same label) are all in the graph
\* already leaves the graph as it was and raises nothing; and a connect
\* with the list of the call before it leaves the graph as that call left it.
C21_ReconnectIsIdempotent ==
    [][pc = "building"
        => /\ (Resolvable(graph, nodes') /\ AskedEdges(graph, nodes') \subseteq SeqRange(graph.edges))
                  => (graph' = graph /\ raised' = "")
           /\ (connects >= 1 /\ nodes' = nodes) => graph' = graph]_vars

\* the node names a call refers to
Referred(refs) == {refs[i][1] : i \in 1..Len(refs)}

\* C22: a connect that is accepted, on references that tell their outputs
\* and with no edge among their nodes before the call, leaves the graph with
\* the edges it had and the edges between consecutive references, each with
\* the label after the dot or else the sole declared output of its source.
C22_ConnectCreatesEveryEdge ==
    [][(pc = "building" /\ Resolvable(graph, nodes') /\ raised' = ""
           /\ \A e \in SeqRange(graph.edges) :
                  ~ (e.src \in Referred(nodes') /\ e.dst \in Referred(nodes')))
        => SeqRange(graph'.edges) = SeqRange(graph.edges) \cup AskedEdges(graph, nodes')]_vars

\* C23: a connect whose first pair refers to a name that is not in the
\* graph raises PipelineConnectError.
C23_UnknownNodeIsConnectError ==
    [][(pc = "building"
           /\ (nodes'[1][1] \notin NodeNames(graph) \/ nodes'[2][1] \notin NodeNames(graph)))
        => raised' = "PipelineConnectError"]_vars

\* C24: a connect whose first reference is a node of the graph, without a
\* dot, that declares no output or several raises PipelineConnectError and
\* leaves the graph as it was.
C24_AmbiguousOutputIsConnectError ==
    [][(pc = "building" /\ nodes'[1][1] \in NodeNames(graph)
           /\ Len(nodes'[1]) = 1 /\ Len(Instance(graph, nodes'[1][1]).outputs) # 1)
        => (raised' = "PipelineConnectError" /\ graph' = graph)]_vars

\* a connect from test_node, which declares two outputs, named none of
\* them and was refused, in a graph that has edges
C24_Witness ==
    /\ pc = "building"
    /\ raised = "PipelineConnectError"
    /\ nodes[1] = <<"test_node">>
    /\ nodes[2][1] \in NodeNames(graph)
    /\ graph.edges # <<>>

\* C25: every name is in the graph once; an add_node never changes the
\* instance, the parameters or the visits of a node that is in the graph,
\* nor the edges; an add_node with a name of the graph raises, and one that
\* adds a node binds the name to the instance and the parameters it was given.
C25_NamesBoundOnce ==
    /\ [](pc = "adding" => \A n \in NodeNames(graph) : SeqCount(graph.nodes, n) = 1)
    /\ [][pc = "adding"
           => /\ \A n \in NodeNames(graph) :
                     /\ n \in NodeNames(graph')
                     /\ Instance(graph', n) = Instance(graph, n)
                     /\ default_parameters'[n] = default_parameters[n]
                     /\ visits'[n] = visits[n]
              /\ graph'.edges = graph.edges
              /\ add_node'.name \in NodeNames(graph) => (raised' # "" /\ graph' = graph)
              /\ raised' = ""
                     => /\ Instance(graph', add_node'.name) = add_node'.instance
                        /\ default_parameters'[add_node'.name] = add_node'.parameters]_vars

\* an add_node was refused for its name, in a pipeline with an edge and
\* visited nodes; the name keeps another instance than the one just given
C25_Witness ==
    /\ pc = "adding"
    /\ raised = "ValueError"
    /\ add_node.name \in NodeNames(graph)
    /\ add_node.instance.haystack_node
    /\ Instance(graph, add_node.name) # add_node.instance
    /\ graph.edges # <<>>
    /\ visits[add_node.name] = 1

\* C26: an add_node given parameters that are neither a dictionary nor
\* None raises and adds no node.
C26_NonMappingParametersRefused ==
    [][(pc = "adding" /\ add_node'.parameters.type \notin {"dict", "NoneType"})
        => (raised' # "" /\ graph' = graph)]_vars

\* the graph has a node without incoming edges
HasEntryNode(g) == \E n \in NodeNames(g) : InEdges(g, n) = <<>>

\* the graph has nodes and every node is joined to every other, directions
\* aside
WeaklyConnected(g) == g.nodes # <<>> /\ Component(g, {g.nodes[1]}) = NodeNames(g)

\* C30: validate raises nothing only on a graph that is weakly connected
\* and has a node without incoming edges, and raises
\* PipelineValidationError on every other graph.
C30_ValidateNeedsConnectedWithEntry ==
    pc = "validated"
        => /\ raised = "" => (WeaklyConnected(graph) /\ HasEntryNode(graph))
           /\ ~ (WeaklyConnected(graph) /\ HasEntryNode(graph))
                  => raised = "PipelineValidationError"

\* the action a graph holds under the name at a position
ActionAt(g, i) == g.instances[i].action

\* every key of the parameters is a string and no item is a tuple
JsonNative(value) ==
    \A kv \in value.items : kv[1].type = "str" /\ kv[2].type # "tuple"

\* the names, the edges with their labels and weights, and the default
\* parameters are those cool_down started from
SameGraph ==
    /\ raised = ""
    /\ graph.nodes = warm.graph.nodes
    /\ graph.edges = warm.graph.edges
    /\ default_parameters = warm.parameters

JsonNativeDefaults == \A n \in NodeNames(graph) : JsonNative(default_parameters[n])

C37_FailedConnectAddsNothing ==
    [][(pc = "building" /\ raised' # "") => graph' = graph]_vars

\* C38: a connect whose first pair is connected already, with the asked
\* label, goes on with the later pairs: it leaves the graph, and raises, as
\* the connect of the references after the first does.
C38_ExistingEdgeDoesNotStop ==
    [][(pc = "building" /\ Len(nodes') >= 3 /\ Resolvable(graph, nodes')
           /\ AskedAt(graph, nodes', 1) \in SeqRange(graph.edges))
        => /\ graph' = ConnectFrom(graph, Tail(nodes'), 1).graph
           /\ raised' = ConnectFrom(graph, Tail(nodes'), 1).raised]_vars

FoundIn(name) ==
    {i \in 1..Len(modules_to_search) :
        \E k \in 1..Len(modules_to_search[i]) : modules_to_search[i][k].name = name}

\* every action of a name that several modules define is in the dictionary
\* under the name of its module followed by its own
QualifiedAll ==
    \A name \in SeqRange(ActionNames) :
        Cardinality(FoundIn(name)) >= 2
            => \A i \in FoundIn(name) :
                   /\ Qualified(i, name) \in Keys(available_actions)
                   /\ Get(available_actions, Qualified(i, name)) = Entity(name, i)

\* C31: after find_actions, every action of a name that two modules or more
\* define is registered under its module-qualified name, and a name that
\* collided three times, that is a name four modules define, is not in the
\* dictionary unqualified, wherever in the list those modules are.
C31_CollidingNamesQualified ==
    (pc = "searched" /\ raised = "")
        => /\ QualifiedAll
           /\ \A name \in SeqRange(ActionNames) :
                  Cardinality(FoundIn(name)) >= 4
                      => Unqualified(name) \notin Keys(available_actions)

\* the popped entry holds no contribution, its node is within the loop
\* limit and waits for producers, all of which completed a visit
NothingArrived ==
    /\ pc = "running"
    /\ inputs_buffer # <<>>
    /\ Popped.item.data = <<>>
    /\ Popped.item.node \notin SeqRange(LocatePipelineInputNodes(graph))
    /\ visits[Popped.item.node] <= MaxLoopsAllowed
    /\ EdgesToWaitFor(graph, Popped.item.node) # <<>>
    /\ \A e \in SeqRange(EdgesToWaitFor(graph, Popped.item.node)) : visits[e.src] > 0

\* the nodes this run has popped and skipped at least once
SkippedNodes == {n \in NodeNames(graph) : visited[n] > Calls(n)}

LoopEntrance(g, name) ==
    /\ Len(InEdges(g, name)) > 1
    /\ \E e \in SeqRange(InEdges(g, name)) : HasPath(g, name, e.src)

\* the popped entry is of a loop entrance within the loop limit, and holds
\* the contribution of every in-edge whose source is not reachable from it
EntranceReady ==
    /\ pc = "running"
    /\ inputs_buffer # <<>>
    /\ LoopEntrance(graph, Popped.item.node)
    /\ visits[Popped.item.node] <= MaxLoopsAllowed
    /\ \A e \in OutsideEdges(graph, Popped.item.node) :
           \E i \in 1..Len(Popped.item.data) :
               /\ Popped.item.data[i].label = e.label
               /\ Popped.item.data[i].src = e.src

\* C33: an iteration that pops the entrance of a loop whose entry holds the
\* contributions of all the upstream nodes that are not reachable from it
\* calls the node, whatever the upstream nodes reachable from it have done.
C33_LoopEntranceStarts ==
    [][EntranceReady => (IsCall /\ log'[Len(log')].node = Popped.item.node)]_vars

\* what the buffer holds for a node: the data of its entry, if it has one
EntriesOf(buffer, name) ==
    LET entries == SelectSeq(buffer, LAMBDA x : x.node = name)
    IN [i \in 1..Len(entries) |-> entries[i].data]

\* what the node called by the step returns
StepOut ==
    NodeRun(Instance(graph, Popped.item.node), Turn(graph, visits, Popped.item).data).out

\* C34: a call of a node with several out-edges, one of which leads back to
\* it, changes nothing in the buffer for the target of an out-edge whose
\* label is not in its output: a target that had no entry gets none, a
\* target that had one keeps it as it was, without a new contribution.
C34_OtherSideNotEnqueued ==
    [][(IsCall /\ pc' = "running" /\ IsDecisionNodeForLoop(graph, Popped.item.node))
        => \A e \in SeqRange(OutEdges(graph, Popped.item.node)) :
               e.label \notin OutLabels(StepOut)
                   => EntriesOf(inputs_buffer', e.dst) = EntriesOf(Popped.rest, e.dst)]_vars

\* the decision node of a loop has just left the loop, after it had stayed
\* in it: the loop-body node is not in the buffer, and the node outside the
\* loop, left out at the earlier call, is in it now
C34_Witness ==
    /\ pc = "running"
    /\ log # <<>>
    /\ lastPop.node = log[Len(log)].node
    /\ IsDecisionNodeForLoop(graph, lastPop.node)
    /\ Calls(lastPop.node) >= 2
    /\ \E e \in SeqRange(OutEdges(graph, lastPop.node)) :
           /\ HasPath(graph, e.dst, lastPop.node)
           /\ e \in emitted
           /\ ~ InBuffer(inputs_buffer, e.dst)
    /\ \E e \in SeqRange(OutEdges(graph, lastPop.node)) :
           /\ ~ HasPath(graph, e.dst, lastPop.node)
           /\ e \in omitted
           /\ InBuffer(inputs_buffer, e.dst)

\* the popped entry is of a node within the loop limit that misses some of
\* the inputs it waits for, while a producer it waits for has no visit yet
NotReady ==
    /\ pc = "running"
    /\ inputs_buffer # <<>>
    /\ Popped.item.node \notin SeqRange(LocatePipelineInputNodes(graph))
    /\ visits[Popped.item.node] <= MaxLoopsAllowed
    /\ ~ SameSorted(Labels(EdgesToWaitFor(graph, Popped.item.node)), Labels(Popped.item.data))
    /\ \E e \in SeqRange(EdgesToWaitFor(graph, Popped.item.node)) : visits[e.src] = 0

\* the entries of a buffer without their insertion stamps
Unstamped(buffer) ==
    [i \in 1..Len(buffer) |-> [node |-> buffer[i].node, data |-> buffer[i].data]]

\* the contributions the calls of the log from a position on put in the
\* entry of a node, in the order of the calls
RECURSIVE DeliveredFrom(_, _)
DeliveredFrom(name, position) ==
    IF position > Len(log) THEN <<>>
    ELSE LET call == log[position]
             results == NodeRun(Instance(graph, call.node), call.data)
             edges == SelectSeq(OutEdges(graph, call.node), LAMBDA e : e.dst = name)
             sent == SelectSeq(edges, LAMBDA e : results.ok /\ e.label \in OutLabels(results.out))
         IN [i \in 1..Len(sent) |->
                Contribution(sent[i].label, OutValue(results.out, sent[i].label), call.node)]
                \o DeliveredFrom(name, position + 1)

\* what this run has given to a node: the pipeline input and the deliveries
Received(name) ==
    (IF name \in SeqRange(LocatePipelineInputNodes(graph))
     THEN <<Contribution("value", data, "input")>> ELSE <<>>)
        \o DeliveredFrom(name, 1)

\* what the calls of a node were given, without the None of a missing input
RECURSIVE ConsumedFrom(_, _)
ConsumedFrom(name, position) ==
    IF position > Len(log) THEN <<>>
    ELSE (IF log[position].node = name
          THEN SelectSeq(log[position].data, LAMBDA c : c.src # "none") ELSE <<>>)
             \o ConsumedFrom(name, position + 1)

\* what waits for a node in the buffer
Waiting(name) ==
    IF InBuffer(inputs_buffer, name) THEN EntriesOf(inputs_buffer, name)[1] ELSE <<>>

Sources(call) == {call.data[i].src : i \in 1..Len(call.data)} \ {"none", "input"}

\* C36: a node called with the contributions of several upstream nodes is
\* given parameters that hold the change of each of those upstream nodes
\* that returned parameters with its output.
C36_ParametersOfEveryContribution ==
    pc \in {"running", "returned"}
        => \A i \in 1..Len(log) :
               Cardinality(Sources(log[i])) >= 2
                   => \A name \in Sources(log[i]) :
                          Instance(graph, name).returns # "dict"
                              => <<"mark", 1>> \in Get(log[i].parameters, name)

====
